---- MODULE Spec2Model ----
(***************************************************************************)
(* Flightdata: the checkpointed ingestion loop (parser.py and             *)
(* stdds_parser.py reading the buffer file the collector appends to), the *)
(* kinematics derivers, the flight segmenter, the runway selector and the  *)
(* approach scoring engine.                                                *)
(*                                                                         *)
(* The buffer file is a sequence of tokens.  A token is an opening marker  *)
(* ("O" = <message ...> / <TATrackAndFlightPlan>, "O2" =                   *)
(* <ns2:TATrackAndFlightPlan>), a closing marker ("C", "C2"), or one       *)
(* payload line: a record (named by its storage key), "bad" (malformed     *)
(* XML) or "noid" (a well-formed record without its mandatory fields).     *)
(***************************************************************************)
EXTENDS Integers, Sequences, FiniteSets, TLC

\* ---------------------------------------------------------------- bounds
MaxFeed == 6            \* tokens the collector appends in one behaviour
MAX_BATCH_SIZE == 2     \* stdds_config.py sets 5000; scaled so that one cycle has several chunks

MaxPoints == 2          \* points of the flight the kinematics are derived for
MaxTrack == 12          \* points of the flight that is segmented
MaxRows == 2            \* rows of v_runway_lookup for the destination
MaxApproach == 2        \* approach points handed to the scoring engine

Recs == {"r1", "r2"}
Payload == Recs \cup {"bad", "noid"}
Progs == {"parser", "stdds"}
None == "None"

VARIABLES
    prog,        \* which ingestion program runs: parser.py or stdds_parser.py
    buf,         \* RAW_XML_FILE
    fed,         \* number of tokens appended so far
    feedIn,      \* the collector's position in the feed: "out", or the closing marker it owes
    db,          \* committed rows of the flights table (unique keys)
    pc,          \* position of the parser process inside process_file
    content,     \* process_file: content
    flights,     \* process_file: flights / all_flights
    ci,          \* stdds process_file: loop index i (1-based)
    conn,        \* stdds process_file: conn is None or open
    uploaded,    \* process_file: uploaded
    result,      \* return value of the last upload_batch call
    batch,       \* argument of the last upload_batch call
    dbPre,       \* storage as it was when the last upload_batch call started
    outcome,     \* how the last upload_batch call went: "ok", "row_error" (a row skipped on a
                 \* database error that is no uniqueness violation), "fatal" (outer except)
    remaining,   \* process_file: remaining
    total_rows_uploaded,   \* state file counter
    parsedEver,  \* history: every record a cycle has parsed from a complete block
    appended     \* history: what the collector has appended since the running cycle read the file

VARIABLES
    points,      \* kinematics: the time-ordered points of one flight
    derived,     \* kinematics: calculate_derivatives(points), <<>> before it has run
    vsp,         \* kinematics: per point, calculate_vertical_speed against the stored points
    track,       \* segmenter: the ordered track of one flight
    step,        \* segmenter: seconds between consecutive position_time values, <<>> when
                 \* the points carry no position_time
    speed,       \* segmenter: ground speed reported by every point
    pre          \* segmenter: <<preprocess_flight(track)>>, <<>> before it has run

VARIABLES
    rwy_rows,    \* runway selector: the rows of v_runway_lookup for the arrival airport
    last_track,  \* score_flight: last_track of the leg, NoVal when no point has a heading
    leg_num,     \* score_flight: number of the leg being scored
    best_rwy,    \* <<get_best_runway(...)>>, <<>> before the leg has been handled
    attempts,    \* rows of the scoring_attempts table
    proceeded    \* score_flight: the leg went on past the runway step

VARIABLES
    approach_points,   \* scoring: the approach points of one leg, in track order
    config,      \* scoring: the config snapshot of the run
    metar,       \* scoring: the wind observation, None when there is none
    clock,        \* scoring: the clock datetime.utcnow() reads
    score,       \* <<calculate_approach_score(...)>> of the first invocation, <<>> before it
    score2       \* the same for a second invocation with identical arguments

VARIABLES
    approach_scores,   \* batch scoring: rows of the approach_scores table
    run,         \* batch scoring: invocations of score_flight on the flight so far
    flight       \* batch scoring: what storage held of the flight at the latest invocation

VARIABLES
    flight_track,   \* leg processing: the points of one flight, in time order
    leg_bounds,     \* leg processing: <<start_idx, end_idx>> of every leg, 0-based
    leg_results     \* leg processing: what score_flight derived for every leg, <<>> before

VARIABLES
    state_file,  \* HA_STATE_FILE: the flags and the counter the processes share
    requested,   \* history: the value the controller last gave collector_enabled
    c_pc,        \* collector.py main: position
    c_state,     \* collector.py main: the local dict state
    p_pc,        \* parser.py main: position
    p_state      \* parser.py main: the local dict state

batchVars == <<approach_scores, run, flight>>
legVars == <<flight_track, leg_bounds, leg_results>>
lifeVars == <<state_file, requested, c_pc, c_state, p_pc, p_state>>
kinVars == <<points, derived, vsp>>
rwyVars == <<rwy_rows, last_track, leg_num, best_rwy, attempts, proceeded>>
scoreVars == <<approach_points, config, metar, clock, score, score2>>
segVars == <<track, step, speed, pre>>

ingestVars == <<prog, buf, fed, feedIn, db, pc, content, flights, ci, conn, uploaded,
                result, batch, dbPre, outcome, remaining, total_rows_uploaded, parsedEver,
                appended>>

\* ------------------------------------------------------------ sequences
Range(s) == {s[k] : k \in 1..Len(s)}

Max(a, b) == IF a >= b THEN a ELSE b
Min(a, b) == IF a <= b THEN a ELSE b

SetMax(S) == CHOOSE x \in S : \A y \in S : y <= x
SetMin(S) == CHOOSE x \in S : \A y \in S : x <= y

\* ------------------------------------------------------ record framing
\* the opening alternative of the pattern of process_file
IsOpen(p, t) == IF p = "parser" THEN t = "O" ELSE t \in {"O", "O2"}

\* the closing alternative of the pattern of process_file
IsClose(p, t) == IF p = "parser" THEN t = "C" ELSE t \in {"C", "C2"}

\* first index >= k of s whose token satisfies the marker test, 0 when none
RECURSIVE FirstOpen(_, _, _)
FirstOpen(p, s, k) ==
    IF k > Len(s) THEN 0
    ELSE IF IsOpen(p, s[k]) THEN k
    ELSE FirstOpen(p, s, k + 1)

RECURSIVE FirstClose(_, _, _)
FirstClose(p, s, k) ==
    IF k > Len(s) THEN 0
    ELSE IF IsClose(p, s[k]) THEN k
    ELSE FirstClose(p, s, k + 1)

\* re.findall(pattern, content, re.DOTALL) with the non-greedy body:
\* the sequence of <<open index, close index>> of the matches, scanning from k
RECURSIVE FindAll(_, _, _)
FindAll(p, s, k) ==
    LET o == FirstOpen(p, s, k) IN
    IF o = 0 THEN <<>>
    ELSE LET c == FirstClose(p, s, o + 1) IN
         IF c = 0 THEN <<>>
         ELSE <<(<<o, c>>)>> \o FindAll(p, s, c + 1)

\* the text between the markers of one match
Body(s, m) == SubSeq(s, m[1] + 1, m[2] - 1)

\* ET.fromstring raises on this block
Malformed(body) == \E k \in 1..Len(body) : body[k] \notin Recs \cup {"noid"}

\* parse_flight: the first flight element of the block, None when the block is
\* malformed, has no flight, or the flight has no callsign
parse_flight(body) ==
    IF Malformed(body) THEN None
    ELSE IF body = <<>> THEN None
    ELSE IF body[1] = "noid" THEN None
    ELSE body[1]

\* parse_message: the records of the block that pass parse_record and the filters
parse_message(body) ==
    IF Malformed(body) THEN <<>>
    ELSE SelectSeq(body, LAMBDA t : t \in Recs)

\* what one block contributes to the list handed to the upload step
ParseBlock(p, body) ==
    IF p = "parser"
    THEN (IF parse_flight(body) = None THEN <<>> ELSE <<parse_flight(body)>>)
    ELSE parse_message(body)

\* a parse loop that gives up at the first block that yields nothing
RECURSIVE ParseLoop_abort(_, _, _, _)
ParseLoop_abort(p, s, ms, k) ==
    IF k > Len(ms) THEN <<>>
    ELSE IF ParseBlock(p, Body(s, ms[k])) = <<>> THEN <<>>
    ELSE ParseBlock(p, Body(s, ms[k])) \o ParseLoop_abort(p, s, ms, k + 1)

\* the for-loop over messages of process_file
RECURSIVE ParseLoop(_, _, _, _)
ParseLoop(p, s, ms, k) ==
    IF k > Len(ms) THEN <<>>
    ELSE ParseBlock(p, Body(s, ms[k])) \o ParseLoop(p, s, ms, k + 1)

\* str.rfind of one closing marker: the last index holding it, 0 when absent
RFind(s, t) == IF \E k \in 1..Len(s) : s[k] = t
               THEN SetMax({k \in 1..Len(s) : s[k] = t})
               ELSE 0

\* last_msg_end of process_file: the number of leading tokens to drop
LastMsgEnd(p, s) ==
    IF p = "parser" THEN RFind(s, "C")
    ELSE IF RFind(s, "C") # 0 THEN RFind(s, "C")
    ELSE RFind(s, "C2")

\* content[last_msg_end:]
Remaining(p, s) == SubSeq(s, LastMsgEnd(p, s) + 1, Len(s))

\* the guard of the truncation with the comparison turned non-strict
ShouldTruncate_nonstrict(p, s, up) == up >= 0 /\ LastMsgEnd(p, s) > 0

\* the guard of the truncation: uploaded > 0 (and last_msg_end > 0 in stdds_parser)
ShouldTruncate(p, s, up) == up > 0 /\ LastMsgEnd(p, s) > 0

\* ---------------------------------------------------------- upload_batch
\* what the IntegrityError handler leaves of the open transaction:
\* parser.py calls conn.rollback(), stdds_parser.py only counts the row
OnIntegrityError(p, txn) == IF p = "parser" THEN {} ELSE txn

\* upload_batch(conn, flights) from row k on.  failAt = k: the insert of row k
\* raises something other than a uniqueness violation, of kind failKind;
\* failAt = Len(fl) + 1: conn.commit() raises; failAt = 0: nothing raises.
RECURSIVE UploadLoop(_, _, _, _, _, _, _, _)
UploadLoop(p, fl, k, dbase, txn, count, failAt, failKind) ==
    IF k > Len(fl)
    THEN IF failAt = Len(fl) + 1
         THEN [count |-> 0, db |-> dbase, outcome |-> "fatal"]
         ELSE [count |-> count, db |-> dbase \cup txn,
               outcome |-> IF failAt \in 1..Len(fl) THEN "row_error" ELSE "ok"]
    ELSE IF failAt = k
         THEN IF p = "stdds" /\ failKind = "DatabaseError"
              THEN UploadLoop(p, fl, k + 1, dbase, txn, count, failAt, failKind)
              ELSE [count |-> 0, db |-> dbase, outcome |-> "fatal"]
         ELSE IF fl[k] \in dbase \cup txn
              THEN UploadLoop(p, fl, k + 1, dbase, OnIntegrityError(p, txn), count,
                              failAt, failKind)
              ELSE UploadLoop(p, fl, k + 1, dbase, txn \cup {fl[k]}, count + 1,
                              failAt, failKind)

upload_batch(p, fl, dbase, failAt, failKind) ==
    IF fl = <<>> THEN [count |-> 0, db |-> dbase, outcome |-> "ok"]
    ELSE UploadLoop(p, fl, 1, dbase, {}, 0, failAt, failKind)

FailKinds == {"DatabaseError", "Error"}

\* ------------------------------------------------------- ingestion steps
vars == <<ingestVars, kinVars, segVars, rwyVars, scoreVars, batchVars, legVars, lifeVars>>

IngestIdle ==
    /\ pc = "idle" /\ content = <<>> /\ flights = <<>> /\ ci = 1 /\ conn = "open"
    /\ uploaded = 0 /\ result = 0 /\ batch = <<>> /\ dbPre = {} /\ outcome = "ok"
    /\ remaining = <<>> /\ appended = <<>>

KinIdle == points = <<>> /\ derived = <<>> /\ vsp = <<>>
SegIdle == track = <<>> /\ step = <<>> /\ speed = 0 /\ pre = <<>>
RwyIdle ==
    /\ rwy_rows = <<>> /\ last_track = <<>> /\ leg_num = 0
    /\ best_rwy = <<>> /\ attempts = {} /\ proceeded = FALSE
ScoreIdle ==
    /\ approach_points = <<>> /\ config = <<>> /\ metar = <<>>
    /\ clock = 0 /\ score = <<>> /\ score2 = <<>>
BatchIdle == approach_scores = {} /\ run = 0 /\ flight = <<>>
LegIdle == flight_track = <<>> /\ leg_bounds = <<>> /\ leg_results = <<>>
LifeIdle ==
    /\ state_file = <<>> /\ requested = TRUE
    /\ c_pc = "top" /\ c_state = <<>> /\ p_pc = "top" /\ p_state = <<>>

IngestInit ==
    /\ prog \in Progs
    /\ buf = <<>> /\ fed = 0 /\ feedIn = "out"
    /\ db = {} /\ total_rows_uploaded = 0 /\ parsedEver = {}
    /\ IngestIdle
    /\ BatchIdle /\ LegIdle /\ LifeIdle
    /\ KinIdle /\ SegIdle /\ RwyIdle /\ ScoreIdle

\* return to the main loop: the locals of process_file are gone
ToIdle ==
    /\ pc' = "idle" /\ content' = <<>> /\ flights' = <<>> /\ ci' = 1 /\ conn' = "open"
    /\ uploaded' = 0 /\ result' = 0 /\ batch' = <<>> /\ dbPre' = {} /\ outcome' = "ok"
    /\ remaining' = <<>> /\ appended' = <<>>

\* collector.py main: one line of the feed is written and flushed
CollectorAppend ==
    /\ fed < MaxFeed
    /\ \E t \in Payload \cup {"O", "O2", "C", "C2"} :
          /\ \/ feedIn = "out" /\ t = "O" /\ feedIn' = "C"
             \/ feedIn = "out" /\ t = "O2" /\ prog = "stdds" /\ feedIn' = "C2"
             \/ feedIn # "out" /\ t \in Payload /\ feedIn' = feedIn
             \/ feedIn # "out" /\ t = feedIn /\ feedIn' = "out"
          /\ buf' = Append(buf, t)
          /\ appended' = IF pc = "idle" THEN <<>> ELSE Append(appended, t)
    /\ fed' = fed + 1
    /\ UNCHANGED <<prog, db, pc, content, flights, ci, conn, uploaded, result, batch,
                   dbPre, outcome, remaining, total_rows_uploaded, parsedEver>>
    /\ UNCHANGED <<kinVars, segVars, rwyVars, scoreVars, batchVars, legVars, lifeVars>>

\* process_file up to the upload: read, findall, parse every message
ReadAndParse ==
    /\ pc = "idle"
    /\ buf # <<>>
    /\ FindAll(prog, buf, 1) # <<>>
    /\ content' = buf
    /\ flights' = ParseLoop(prog, buf, FindAll(prog, buf, 1), 1)
    /\ parsedEver' = parsedEver \cup Range(flights')
    /\ appended' = <<>>
    /\ pc' = "upload"
    /\ UNCHANGED <<prog, buf, fed, feedIn, db, ci, conn, uploaded, result, batch, dbPre,
                   outcome, remaining, total_rows_uploaded>>
    /\ UNCHANGED <<kinVars, segVars, rwyVars, scoreVars, batchVars, legVars, lifeVars>>

\* parser.py process_file: uploaded = upload_batch(conn, flights)
UploadAll ==
    /\ pc = "upload" /\ prog = "parser"
    /\ \E failAt \in 0..(Len(flights) + 1) :
          LET r == upload_batch(prog, flights, db, failAt, "Error") IN
          /\ db' = r.db
          /\ result' = r.count
          /\ outcome' = r.outcome
          /\ uploaded' = r.count
    /\ batch' = flights
    /\ dbPre' = db
    /\ pc' = "uploaded"
    /\ UNCHANGED <<prog, buf, fed, feedIn, content, flights, ci, conn, remaining,
                   total_rows_uploaded, parsedEver, appended>>
    /\ UNCHANGED <<kinVars, segVars, rwyVars, scoreVars, batchVars, legVars, lifeVars>>

\* stdds_parser.py process_file: one iteration of the chunk loop, with the
\* reconnect before it and the state update after it
UploadChunk ==
    /\ pc = "upload" /\ prog = "stdds"
    /\ ci <= Len(flights)
    /\ LET chunk == SubSeq(flights, ci, Min(ci + MAX_BATCH_SIZE - 1, Len(flights))) IN
       \/ \* conn is None and connect_azure() fails: break
          /\ conn = "none"
          /\ pc' = "uploaded"
          /\ UNCHANGED <<db, result, outcome, uploaded, batch, dbPre, ci, conn,
                         total_rows_uploaded>>
       \/ \E failAt \in 0..(Len(chunk) + 1), failKind \in FailKinds :
             LET r == upload_batch(prog, chunk, db, failAt, failKind) IN
             /\ (failKind = "Error" \/ failAt \in 1..Len(chunk))
             /\ db' = r.db
             /\ result' = r.count
             /\ outcome' = r.outcome
             /\ uploaded' = uploaded + r.count
             /\ conn' = IF r.count = 0 THEN "none" ELSE "open"
             /\ total_rows_uploaded' = total_rows_uploaded + r.count
             /\ batch' = chunk
             /\ dbPre' = db
             /\ ci' = ci + MAX_BATCH_SIZE
             /\ pc' = IF ci + MAX_BATCH_SIZE > Len(flights) THEN "uploaded" ELSE "upload"
    /\ UNCHANGED <<prog, buf, fed, feedIn, content, flights, remaining, parsedEver, appended>>
    /\ UNCHANGED <<kinVars, segVars, rwyVars, scoreVars, batchVars, legVars, lifeVars>>

\* stdds_parser.py process_file: no record was parsed, the chunk loop is empty
UploadNothing ==
    /\ pc = "upload" /\ prog = "stdds"
    /\ flights = <<>>
    /\ pc' = "uploaded"
    /\ UNCHANGED <<prog, buf, fed, feedIn, db, content, flights, ci, conn, uploaded, result,
                   batch, dbPre, outcome, remaining, total_rows_uploaded, parsedEver, appended>>
    /\ UNCHANGED <<kinVars, segVars, rwyVars, scoreVars, batchVars, legVars, lifeVars>>

\* process_file: uploaded is 0 (or no marker found), return without writing
ReturnUnchanged ==
    /\ pc = "uploaded"
    /\ ~ShouldTruncate(prog, content, uploaded)
    /\ ToIdle
    /\ UNCHANGED <<prog, buf, fed, feedIn, db, total_rows_uploaded, parsedEver>>
    /\ UNCHANGED <<kinVars, segVars, rwyVars, scoreVars, batchVars, legVars, lifeVars>>

\* process_file: open(RAW_XML_FILE, "w") empties the file
TruncOpen ==
    /\ pc = "uploaded"
    /\ ShouldTruncate(prog, content, uploaded)
    /\ remaining' = Remaining(prog, content)
    /\ buf' = <<>>
    /\ pc' = "write"
    /\ UNCHANGED <<prog, fed, feedIn, db, content, flights, ci, conn, uploaded, result,
                   batch, dbPre, outcome, total_rows_uploaded, parsedEver, appended>>
    /\ UNCHANGED <<kinVars, segVars, rwyVars, scoreVars, batchVars, legVars, lifeVars>>

\* what the file holds after f.write(remaining) at offset 0 and close: lines
\* the collector appended after the open survive beyond Len(remaining)
Written(rem, cur) == rem \o SubSeq(cur, Len(rem) + 1, Len(cur))

\* process_file: f.write(remaining), then back in main the counter update
\* that parser.py makes when uploaded > 0
TruncWrite ==
    /\ pc = "write"
    /\ buf' = Written(remaining, buf)
    /\ total_rows_uploaded' =
          IF prog = "parser" THEN total_rows_uploaded + uploaded ELSE total_rows_uploaded
    /\ ToIdle
    /\ UNCHANGED <<prog, fed, feedIn, db, parsedEver>>
    /\ UNCHANGED <<kinVars, segVars, rwyVars, scoreVars, batchVars, legVars, lifeVars>>

\* the parser process dies inside process_file and is restarted
Crash ==
    /\ pc # "idle"
    /\ ToIdle
    /\ UNCHANGED <<prog, buf, fed, feedIn, db, total_rows_uploaded, parsedEver>>
    /\ UNCHANGED <<kinVars, segVars, rwyVars, scoreVars, batchVars, legVars, lifeVars>>

IngestNext ==
    \/ CollectorAppend
    \/ ReadAndParse
    \/ UploadAll
    \/ UploadChunk
    \/ UploadNothing
    \/ ReturnUnchanged
    \/ TruncOpen
    \/ TruncWrite
    \/ Crash

Spec == IngestInit /\ [][IngestNext]_vars

\* ------------------------------------------------- claims on the ingestion
\* the complete blocks of s, stated without the scan: an opening marker starts
\* a block when a closing marker follows it and every earlier opening marker
\* has been closed before it
BlockStarts(p, s) ==
    {o \in 1..Len(s) :
        /\ IsOpen(p, s[o])
        /\ \E c \in (o + 1)..Len(s) : IsClose(p, s[c])
        /\ \A q \in 1..(o - 1) :
              IsOpen(p, s[q]) => \E c \in (q + 1)..(o - 1) : IsClose(p, s[c])}

CloseOf(p, s, o) == SetMin({c \in (o + 1)..Len(s) : IsClose(p, s[c])})

BlockBody(p, s, o) == SubSeq(s, o + 1, CloseOf(p, s, o) - 1)

RECURSIVE RecordsOfBlocks(_, _, _)
RecordsOfBlocks(p, s, starts) ==
    IF starts = {} THEN <<>>
    ELSE LET o == SetMin(starts) IN
         ParseBlock(p, BlockBody(p, s, o)) \o RecordsOfBlocks(p, s, starts \ {o})

LastBlockEnd(p, s) == CloseOf(p, s, SetMax(BlockStarts(p, s)))

\* C1: every record a cycle has parsed from a complete block is still in the
\* buffer file or committed to storage, at every moment
C1_NoParsedRecordLost ==
    \A r \in parsedEver : r \in Range(buf) \/ r \in db

\* C2: a step of process_file changes the buffer file only when the upload
\* step reported at least one persisted record; with zero reported the cycle
\* ends with the file as it was
C2_RewriteOnlyAfterUpload ==
    [][ /\ (pc # "idle" /\ fed' = fed /\ buf' # buf) => uploaded > 0
        /\ (pc = "uploaded" /\ uploaded = 0 /\ fed' = fed) => (buf' = buf /\ pc' = "idle")
      ]_vars

\* a cycle whose upload step reported zero for a non-empty batch of
\* duplicates is about to return
C2_Witness ==
    /\ pc = "uploaded" /\ uploaded = 0
    /\ batch # <<>> /\ outcome = "ok"
    /\ buf # <<>>

\* C3: when process_file truncates, what it writes is exactly the content it
\* read from the end of the last complete block on
C3_RemainingIsSuffixAfterLastBlock ==
    pc = "write" =>
        remaining = SubSeq(content, LastBlockEnd(prog, content) + 1, Len(content))

\* C4: an upload_batch call in which nothing but uniqueness violations went
\* wrong leaves every record of its batch in storage and returns the number
\* of rows it committed
C4_DuplicatesOnlySkipped ==
    (pc \in {"upload", "uploaded"} /\ batch # <<>> /\ outcome = "ok") =>
        /\ Range(batch) \subseteq db
        /\ result = Cardinality(db \ dbPre)

\* C5: the list handed to the upload step holds the records of every complete
\* block that parses, in buffer order; blocks that do not parse contribute
\* nothing and stop nothing
C5_UnparsableBlockSkipped ==
    pc \in {"upload", "uploaded", "write"} =>
        flights = RecordsOfBlocks(prog, content, BlockStarts(prog, content))

\* a block that yields nothing stands before a block that yields a record
C5_Witness ==
    /\ pc = "upload"
    /\ \E o1 \in BlockStarts(prog, content), o2 \in BlockStarts(prog, content) :
          /\ o1 < o2
          /\ ParseBlock(prog, BlockBody(prog, content, o1)) = <<>>
          /\ ParseBlock(prog, BlockBody(prog, content, o2)) # <<>>
    /\ flights # <<>>

\* ------------------------------------------------------------ kinematics
\* An optional number is <<>> (None) or <<v>>.  Rates rounded to 0.01 are
\* kept in hundredths.
NoVal == <<>>
Val(x) == <<x>>

DtSet == {-10, 0, 10, 120, 130}          \* seconds to the preceding point
KinSpeedSet == {NoVal, Val(60), Val(70)}     \* knots
KinTrackSet == {NoVal, Val(10), Val(190), Val(350)}   \* degrees
KinAltSet == {NoVal, Val(1000), Val(1600)}   \* feet

\* Python round(): the integer nearest to n / d (d > 0), halves to even
RoundHalfEven(n, d) ==
    LET q == n \div d
        r == n % d
    IN  IF 2 * r < d THEN q
        ELSE IF 2 * r > d THEN q + 1
        ELSE IF q % 2 = 0 THEN q ELSE q + 1

\* calculate_derivatives: if diff > 180: diff -= 360 / elif diff < -180: diff += 360
NormDiff(diff) ==
    IF diff > 180 THEN diff - 360
    ELSE IF diff < -180 THEN diff + 360
    ELSE diff

\* calculate_derivatives: the negation of "if dt <= 0 or dt > 120: continue"
DtUsable(dt) == ~(dt <= 0 \/ dt > 120)

\* calculate_derivatives: the fields set on points[i]
DerivativesAt(pts, i) ==
    IF i = 1 THEN [accel |-> NoVal, turn_rate |-> NoVal]
    ELSE LET prev == pts[i - 1]
             curr == pts[i]
             dt == curr.t - prev.t
         IN  IF ~DtUsable(dt) THEN [accel |-> NoVal, turn_rate |-> NoVal]
             ELSE [accel |->
                      IF prev.speed # NoVal /\ curr.speed # NoVal
                      THEN Val(RoundHalfEven(100 * (curr.speed[1] - prev.speed[1]), dt))
                      ELSE NoVal,
                   turn_rate |->
                      IF prev.track # NoVal /\ curr.track # NoVal
                      THEN Val(RoundHalfEven(100 * NormDiff(curr.track[1] - prev.track[1]), dt))
                      ELSE NoVal]

\* calculate_derivatives(points); with fewer than 2 points nothing is set
calculate_derivatives(pts) ==
    IF Len(pts) < 2 THEN [i \in 1..Len(pts) |-> [accel |-> NoVal, turn_rate |-> NoVal]]
    ELSE [i \in 1..Len(pts) |-> DerivativesAt(pts, i)]

\* calculate_vertical_speed(conn, gufi, current_alt, current_time) against
\* the stored rows of the same gufi
calculate_vertical_speed(stored, current_alt, current_time) ==
    LET rows == {k \in 1..Len(stored) : stored[k].altitude # NoVal} IN
    IF current_alt = NoVal THEN NoVal
    ELSE IF rows = {} THEN NoVal
    ELSE LET top == CHOOSE k \in rows : \A j \in rows : stored[j].t <= stored[k].t
             elapsed_seconds == current_time - stored[top].t
         IN  IF elapsed_seconds <= 0 THEN NoVal
             ELSE Val(RoundHalfEven((current_alt[1] - stored[top].altitude[1]) * 60,
                                    elapsed_seconds))

KinInit ==
    /\ KinIdle
    /\ SegIdle /\ RwyIdle /\ ScoreIdle
    /\ prog = "parser"
    /\ buf = <<>> /\ fed = 0 /\ feedIn = "out"
    /\ db = {} /\ total_rows_uploaded = 0 /\ parsedEver = {}
    /\ IngestIdle
    /\ BatchIdle /\ LegIdle /\ LifeIdle

\* one more report of the flight arrives and is stored; its vertical speed is
\* derived against the rows stored so far, the way the call that upload_batch
\* keeps commented out would do it (as shipped, upload_batch stores None)
KinStorePoint ==
    /\ Len(points) < MaxPoints
    /\ \E dt \in DtSet, sp \in KinSpeedSet, tr \in KinTrackSet, al \in KinAltSet :
          LET now == IF points = <<>> THEN 0 ELSE points[Len(points)].t + dt IN
          /\ points = <<>> => dt = 0
          /\ points' = Append(points, [t |-> now, speed |-> sp, track |-> tr, altitude |-> al])
          /\ vsp' = Append(vsp, calculate_vertical_speed(points, al, now))
    /\ derived' = <<>>
    /\ UNCHANGED <<ingestVars, segVars, rwyVars, scoreVars, batchVars, legVars, lifeVars>>

\* the scoring side reads the stored points and derives acceleration and turn rate
KinDerive ==
    /\ points # <<>>
    /\ derived = <<>>
    /\ derived' = calculate_derivatives(points)
    /\ UNCHANGED <<points, vsp>>
    /\ UNCHANGED <<ingestVars, segVars, rwyVars, scoreVars, batchVars, legVars, lifeVars>>

KinNext == KinStorePoint \/ KinDerive

SpecKin == KinInit /\ [][KinNext]_vars

\* seconds from the preceding point of the sequence to point i
Elapsed(i) == points[i].t - points[i - 1].t

HalfOpenDiff(diff) == CHOOSE x \in (-179)..180 : (x - diff) % 360 = 0

\* C7: with the elapsed time in (0, 120] s and both headings known, the turn
\* rate is the heading difference normalized into (-180, 180], over the time
C7_TurnRateHalfOpen ==
    derived # <<>> =>
        \A i \in 2..Len(points) :
            (Elapsed(i) > 0 /\ Elapsed(i) <= 120
               /\ points[i - 1].track # NoVal /\ points[i].track # NoVal) =>
                derived[i].turn_rate =
                    Val(RoundHalfEven(
                          100 * HalfOpenDiff(points[i].track[1] - points[i - 1].track[1]),
                          Elapsed(i)))

\* ------------------------------------------------------------- segmenter
\* Indices are 0-based as in the source; At reads a Python list.
At(seq, i) == seq[i + 1]

SegAltSet == {100, 1000}                 \* reported altitudes, feet
SegStepSet == {NoVal, Val(30), Val(61)}  \* spacing of position_time, seconds
SegSpeedSet == {120, 250}                \* knots

airport_elevation == 0

\* the first ghost rule with its limit one lower
TooFewPoints_four(tr) == Len(tr) < 4

\* detect_ghost_flight: if not track or len(track) < 5
TooFewPoints(tr) == Len(tr) < 5

\* detect_ghost_flight(track, arrival_airport, airport_elevation)
detect_ghost_flight(tr, sp) ==
    IF TooFewPoints(tr) THEN [is_ghost |-> TRUE, reason |-> "Too few track points"]
    ELSE LET min_alt == SetMin({IF At(tr, i) # 0 THEN At(tr, i) ELSE 99999 : i \in 0..(Len(tr) - 1)})
             max_alt == SetMax({At(tr, i) : i \in 0..(Len(tr) - 1)})
             min_agl == min_alt - airport_elevation
             alt_range == max_alt - min_alt
             last_alt == IF At(tr, Len(tr) - 1) # 0 THEN At(tr, Len(tr) - 1) ELSE 99999
             last_agl == last_alt - airport_elevation
         IN  IF min_agl > 3000 THEN [is_ghost |-> TRUE, reason |-> "Never below 3000ft AGL"]
             ELSE IF alt_range < 500 THEN [is_ghost |-> TRUE, reason |-> "No descent"]
             ELSE IF last_agl > 2000 THEN [is_ghost |-> TRUE, reason |-> "Last point too high"]
             ELSE IF sp # 0 /\ sp > 200
                  THEN [is_ghost |-> TRUE, reason |-> "Final speeds too high"]
             ELSE [is_ghost |-> FALSE, reason |-> None]

RECURSIVE SumSeq(_)
SumSeq(q) == IF q = <<>> THEN 0 ELSE Head(q) + SumSeq(Tail(q))

\* detect_touch_and_goes: smoothed[i], kept as 6 times the moving average so
\* that the windows of 2 and of 3 points both give integers
Smoothed6(tr, i) ==
    LET start == Max(0, i - 1)
        end == Min(Len(tr), i + 2)
    IN  (6 * SumSeq([k \in 1..(end - start) |-> At(tr, start + k - 1) - airport_elevation]))
            \div (end - start)

\* detect_touch_and_goes: the local minima below 500 ft AGL, ascending
IsValley(tr, i) ==
    /\ Smoothed6(tr, i) < 6 * 500
    /\ Smoothed6(tr, i) <= Smoothed6(tr, i - 1) /\ Smoothed6(tr, i) <= Smoothed6(tr, i + 1)
    /\ Smoothed6(tr, i) <= Smoothed6(tr, i - 2) /\ Smoothed6(tr, i) <= Smoothed6(tr, i + 2)

RECURSIVE Valleys(_, _)
Valleys(tr, i) ==
    IF i > Len(tr) - 3 THEN <<>>
    ELSE (IF IsValley(tr, i) THEN <<i>> ELSE <<>>) \o Valleys(tr, i + 1)

\* detect_touch_and_goes: the merge loop, from valley number k (1-based) on
RECURSIVE MergeValleys(_, _, _, _, _)
MergeValleys(tr, st, vs, k, merged) ==
    IF k > Len(vs) THEN merged
    ELSE LET v == vs[k] IN
         IF merged = <<>> THEN MergeValleys(tr, st, vs, k + 1, <<v>>)
         ELSE LET last_v == merged[Len(merged)] IN
              IF st = NoVal
              THEN MergeValleys(tr, st, vs, k + 1, Append(merged, v))
              ELSE IF st[1] * (v - last_v) > 60
              THEN MergeValleys(tr, st, vs, k + 1, Append(merged, v))
              ELSE IF Smoothed6(tr, v) < Smoothed6(tr, last_v)
              THEN MergeValleys(tr, st, vs, k + 1, [merged EXCEPT ![Len(merged)] = v])
              ELSE MergeValleys(tr, st, vs, k + 1, merged)

merged_valleys(tr, st) == MergeValleys(tr, st, Valleys(tr, 2), 1, <<>>)

MaxSmoothed6(tr, a, b) == SetMax({Smoothed6(tr, i) : i \in a..b})

Leg(a, b, ty) == [start_idx |-> a, end_idx |-> b, leg_type |-> ty]

\* detect_touch_and_goes: the loop over the valley-to-valley spans, from span i (0-based) on
RECURSIVE MiddleLegs(_, _, _, _)
MiddleLegs(tr, mv, i, legs) ==
    IF i > Len(mv) - 2 THEN legs
    ELSE LET start_idx == At(mv, i)
             end_idx == At(mv, i + 1)
         IN  IF MaxSmoothed6(tr, start_idx, end_idx) > Smoothed6(tr, start_idx) + 6 * 300
             THEN MiddleLegs(tr, mv, i + 1, Append(legs, Leg(start_idx, end_idx, "touch_and_go")))
             ELSE MiddleLegs(tr, mv, i + 1,
                             [legs EXCEPT ![Len(legs)] =
                                 Leg(legs[Len(legs)].start_idx, end_idx, legs[Len(legs)].leg_type)])

\* the last leg without the test that the valley lies 5 points before the end
LastLeg_nowindow(tr, last_valley) ==
    IF MaxSmoothed6(tr, last_valley, Len(tr) - 1) > Smoothed6(tr, last_valley) + 6 * 300
    THEN Leg(last_valley, Len(tr) - 1, "touch_and_go")
    ELSE Leg(last_valley, Len(tr) - 1, "full_stop")

\* detect_touch_and_goes: the leg from the last valley to the end
LastLeg(tr, last_valley) ==
    IF last_valley < Len(tr) - 5
       /\ MaxSmoothed6(tr, last_valley, Len(tr) - 1) > Smoothed6(tr, last_valley) + 6 * 300
    THEN Leg(last_valley, Len(tr) - 1, "touch_and_go")
    ELSE Leg(last_valley, Len(tr) - 1, "full_stop")

\* the short-track guard with the ghost limit of 5 in place of 10
TooShortForLegs_five(tr) == Len(tr) < 5

\* detect_touch_and_goes: if not track or len(track) < 10
TooShortForLegs(tr) == Len(tr) < 10

\* the segmenter with the first leg ending one point before the first valley
detect_touch_and_goes_gap(tr, st) ==
    IF TooShortForLegs(tr) THEN <<Leg(0, Len(tr) - 1, "unknown")>>
    ELSE LET mv == merged_valleys(tr, st) IN
         IF Len(mv) <= 1
         THEN <<Leg(0, Len(tr) - 1, IF mv # <<>> THEN "full_stop" ELSE "unknown")>>
         ELSE Append(MiddleLegs(tr, mv, 0, <<Leg(0, At(mv, 0) - 1, "touch_and_go")>>),
                     LastLeg(tr, At(mv, Len(mv) - 1)))

\* detect_touch_and_goes(track, runway, airport_elevation)
detect_touch_and_goes(tr, st) ==
    IF TooShortForLegs(tr) THEN <<Leg(0, Len(tr) - 1, "unknown")>>
    ELSE LET mv == merged_valleys(tr, st) IN
         IF Len(mv) <= 1
         THEN <<Leg(0, Len(tr) - 1, IF mv # <<>> THEN "full_stop" ELSE "unknown")>>
         ELSE Append(MiddleLegs(tr, mv, 0, <<Leg(0, At(mv, 0), "touch_and_go")>>),
                     LastLeg(tr, At(mv, Len(mv) - 1)))

\* preprocess_flight(track, arrival_airport, cursor): is_ghost, ghost_reason, legs
preprocess_flight(tr, st, sp) ==
    IF tr = <<>> THEN [is_ghost |-> TRUE, ghost_reason |-> "No track data", legs |-> <<>>]
    ELSE IF detect_ghost_flight(tr, sp).is_ghost
    THEN [is_ghost |-> TRUE, ghost_reason |-> detect_ghost_flight(tr, sp).reason, legs |-> <<>>]
    ELSE [is_ghost |-> FALSE, ghost_reason |-> None, legs |-> detect_touch_and_goes(tr, st)]

SegInit ==
    /\ track = <<>> /\ pre = <<>>
    /\ step \in SegStepSet
    /\ speed \in SegSpeedSet
    /\ KinIdle /\ RwyIdle /\ ScoreIdle
    /\ prog = "parser"
    /\ buf = <<>> /\ fed = 0 /\ feedIn = "out"
    /\ db = {} /\ total_rows_uploaded = 0 /\ parsedEver = {}
    /\ IngestIdle
    /\ BatchIdle /\ LegIdle /\ LifeIdle

\* one more point of the flight is stored
SegAddPoint ==
    /\ Len(track) < MaxTrack
    /\ \E a \in SegAltSet : track' = Append(track, a)
    /\ pre' = <<>>
    /\ UNCHANGED <<step, speed>>
    /\ UNCHANGED <<ingestVars, kinVars, rwyVars, scoreVars, batchVars, legVars, lifeVars>>

\* score_flight reads the track and preprocesses it
SegPreprocess ==
    /\ pre = <<>>
    /\ pre' = <<preprocess_flight(track, step, speed)>>
    /\ UNCHANGED <<track, step, speed>>
    /\ UNCHANGED <<ingestVars, kinVars, rwyVars, scoreVars, batchVars, legVars, lifeVars>>

SegNext == SegAddPoint \/ SegPreprocess

SpecSeg == SegInit /\ [][SegNext]_vars

\* --------------------------------------------------- claims on the segmenter
Result == pre[1]
N == Len(track)

\* C8 as stated: every flight with fewer than 5 track points, the empty track
\* included, is a ghost with reason "Too few track points" and gets no legs
C8_TooFewPointsAlways ==
    (pre # <<>> /\ N < 5) =>
        /\ Result.is_ghost
        /\ Result.ghost_reason = "Too few track points"
        /\ Result.legs = <<>>

\* C8 amended: every flight with 1 to 4 track points is a ghost with reason
\* "Too few track points", the empty track is a ghost with reason
\* "No track data", and neither gets legs
C8_ShortTrackIsGhost ==
    (pre # <<>> /\ N < 5) =>
        /\ Result.is_ghost
        /\ Result.ghost_reason = (IF N = 0 THEN "No track data" ELSE "Too few track points")
        /\ Result.legs = <<>>

\* a track of 4 points that no other ghost rule would catch has been preprocessed
C8_Witness ==
    /\ pre # <<>> /\ N = 4
    /\ speed <= 200
    /\ \E i \in 1..N, j \in 1..N : track[i] - track[j] >= 500
    /\ Result.is_ghost

\* the valleys of the smoothed profile before merging, whatever the length
RawValleys == Valleys(track, 2)

\* 6 x the climb of the smoothed profile above valley a on the way to index b
Climb6(a, b) == MaxSmoothed6(track, a, b) - Smoothed6(track, a)

Merged == merged_valleys(track, step)

C10_SingleLegAnyLength ==
    (/\ pre # <<>> /\ ~Result.is_ghost
     /\ Len(Merged) <= 1) =>
        Result.legs = <<Leg(0, N - 1, IF Len(Merged) = 1 THEN "full_stop" ELSE "unknown")>>

\* C10 amended: a non-ghost flight of 10 points or more with at most one
\* valley after merging gets a single leg over 0..n-1, full_stop with one
\* valley, unknown with none; a non-ghost flight of 5 to 9 points gets a
\* single leg over 0..n-1 that is unknown whatever its valleys
C10_SingleLegFromTenPoints ==
    (pre # <<>> /\ ~Result.is_ghost) =>
        /\ (N >= 10 /\ Len(Merged) <= 1) =>
              Result.legs =
                  <<Leg(0, N - 1, IF Len(Merged) = 1 THEN "full_stop" ELSE "unknown")>>
        /\ N < 10 => Result.legs = <<Leg(0, N - 1, "unknown")>>

\* a non-ghost flight of 10 points with exactly one valley has been preprocessed
C10_Witness ==
    /\ pre # <<>> /\ ~Result.is_ghost
    /\ N >= 10
    /\ Len(Merged) = 1
    /\ Result.legs = <<Leg(0, N - 1, "full_stop")>>

\* ============================================================ runway selector
\* Headings and bearings are kept in thousandths of a degree, so that what
\* round(hdg, 2) drops is visible.  A threshold position stands for a
\* (lat, lon) pair; None is a missing coordinate.

Abs(x) == IF x < 0 THEN -x ELSE x

\* _bearing between the thresholds of the runways of the destination
bearing(p, q) ==
    CASE p = "a1" /\ q = "a2" -> 90004
      [] p = "a2" /\ q = "a1" -> 270004
      [] p = "b1" /\ q = "b2" -> 90004
      [] p = "b2" /\ q = "b1" -> 270004
      [] p = "c1" /\ q = "c2" -> 1000
      [] p = "c2" /\ q = "c1" -> 181000
      [] OTHER -> 0

\* the runways of the destination as v_runway_lookup knows them in full:
\* two parallel runways 09L/27R and 09R/27L, and the crossing runway 36/18
Runways ==
    { [be_id |-> "09L", re_id |-> "27R", be_pos |-> "a1", re_pos |-> "a2",
       be_true_hdg |-> Val(90000), re_true_hdg |-> Val(270000)],
      [be_id |-> "09R", re_id |-> "27L", be_pos |-> "b1", re_pos |-> "b2",
       be_true_hdg |-> Val(90000), re_true_hdg |-> Val(270000)],
      [be_id |-> "36", re_id |-> "18", be_pos |-> "c1", re_pos |-> "c2",
       be_true_hdg |-> Val(1000), re_true_hdg |-> Val(181000)] }

\* a row of the view: any of its threshold positions and its published
\* headings may be missing
RwyRowSet ==
    { [r EXCEPT !.be_pos = IF kb THEN r.be_pos ELSE None,
                !.re_pos = IF kr THEN r.re_pos ELSE None,
                !.be_true_hdg = IF kh THEN r.be_true_hdg ELSE NoVal,
                !.re_true_hdg = IF kh THEN r.re_true_hdg ELSE NoVal] :
        r \in Runways, kb \in BOOLEAN, kr \in BOOLEAN, kh \in BOOLEAN }

LastTrackSet == {NoVal, Val(90000), Val(90004), Val(180004), Val(359000)}
LegNumSet == {1, 2}

arrival == "KXYZ"
gufi == "g"

\* the fields of one end of a row: row.get(f'{end}_...')
EndId(row, end) == IF end = "be" THEN row.be_id ELSE row.re_id
EndPos(row, end) == IF end = "be" THEN row.be_pos ELSE row.re_pos
OppPos(row, end) == IF end = "be" THEN row.re_pos ELSE row.be_pos
EndTrueHdg(row, end) == IF end = "be" THEN row.be_true_hdg ELSE row.re_true_hdg

\* if not lat or not lon: continue
HasCoords(row, end) == EndPos(row, end) # None

\* hdg of one end: the bearing to the opposite threshold when that is known,
\* else the published heading, else 0
EndHdg(row, end) ==
    IF OppPos(row, end) # None THEN bearing(EndPos(row, end), OppPos(row, end))
    ELSE IF EndTrueHdg(row, end) # NoVal THEN EndTrueHdg(row, end)[1]
    ELSE 0

\* diff = abs(hdg - last_track); if diff > 180: diff = 360 - diff
AngDiff(hdg, lt) ==
    LET d == Abs(hdg - lt) IN IF d > 180000 THEN 360000 - d ELSE d

\* round(hdg, 2)
Round2(hdg) == RoundHalfEven(hdg, 10) * 10

ReportedHeading_exact(hdg) == hdg
ReportedHeading(hdg) == Round2(hdg)

\* the dictionary built for the end that becomes best_rwy; its elevation entry
\* is copied from the row, plays no part in the selection and is left out
RunwayOf(row, end) ==
    [runway_id |-> EndId(row, end),
     heading |-> Val(ReportedHeading(EndHdg(row, end))),
     threshold |-> EndPos(row, end)]

\* the ends in iteration order: for row in rwy_rows: for end in ['be', 're']
Ends(rows) ==
    [k \in 1..(2 * Len(rows)) |->
        [row |-> rows[(k + 1) \div 2], end |-> IF k % 2 = 1 THEN "be" ELSE "re"]]

Better_nonstrict(diff, best_diff) == diff <= best_diff
Better(diff, best_diff) == diff < best_diff

\* the selection loop from end number k on, carrying best_rwy and best_diff
RECURSIVE BestLoop(_, _, _, _, _)
BestLoop(ends, k, lt, best, best_diff) ==
    IF k > Len(ends) THEN best
    ELSE LET row == ends[k].row
             end == ends[k].end
         IN  IF ~HasCoords(row, end) THEN BestLoop(ends, k + 1, lt, best, best_diff)
             ELSE IF lt # NoVal /\ Better(AngDiff(EndHdg(row, end), lt[1]), best_diff)
                  THEN BestLoop(ends, k + 1, lt, Val(RunwayOf(row, end)),
                                AngDiff(EndHdg(row, end), lt[1]))
                  ELSE BestLoop(ends, k + 1, lt, best, best_diff)

\* if not best_rwy and rwy_rows: the begin end of the first row as it is
FirstCandidate(rows) ==
    [runway_id |-> rows[1].be_id,
     heading |-> rows[1].be_true_hdg,
     threshold |-> rows[1].be_pos]

Fallback_none(rows) == NoVal
Fallback(rows) == Val(FirstCandidate(rows))

\* the result is NoVal for None, Val(r) for the runway r
get_best_runway(rows, lt) ==
    IF rows = <<>> THEN NoVal
    ELSE LET best == BestLoop(Ends(rows), 1, lt, NoVal, 360000)
         IN  IF best = NoVal THEN Fallback(rows) ELSE best

\* log_attempt: the key of the row, then delete and insert
LogGufi(g, n) == IF n > 1 THEN <<g, "#leg", n>> ELSE <<g>>

log_attempt(tbl, g, n, success, failure_reason) ==
    {a \in tbl : a.gufi # LogGufi(g, n)}
        \cup {[gufi |-> LogGufi(g, n), success |-> success,
               failure_reason |-> failure_reason]}

RwyInit ==
    /\ rwy_rows = <<>>
    /\ last_track \in LastTrackSet
    /\ leg_num \in LegNumSet
    /\ best_rwy = <<>> /\ attempts = {} /\ proceeded = FALSE
    /\ KinIdle /\ SegIdle /\ ScoreIdle
    /\ prog = "parser"
    /\ buf = <<>> /\ fed = 0 /\ feedIn = "out"
    /\ db = {} /\ total_rows_uploaded = 0 /\ parsedEver = {}
    /\ IngestIdle
    /\ BatchIdle /\ LegIdle /\ LifeIdle

\* the view holds one more row for the destination
RwyAddRow ==
    /\ best_rwy = <<>>
    /\ Len(rwy_rows) < MaxRows
    /\ \E r \in RwyRowSet : rwy_rows' = Append(rwy_rows, r)
    /\ UNCHANGED <<last_track, leg_num, best_rwy, attempts, proceeded>>
    /\ UNCHANGED <<ingestVars, kinVars, segVars, scoreVars, batchVars, legVars, lifeVars>>

\* score_flight, the runway step of one leg: select the runway; without one,
\* log the failed attempt and go to the next leg
RwySelect ==
    /\ best_rwy = <<>>
    /\ LET r == get_best_runway(rwy_rows, last_track)
       IN  /\ best_rwy' = <<r>>
           /\ IF r = NoVal
              THEN /\ attempts' = log_attempt(attempts, gufi, leg_num, FALSE,
                                              <<"No runway data for", arrival>>)
                   /\ proceeded' = FALSE
              ELSE /\ proceeded' = TRUE
                   /\ UNCHANGED attempts
    /\ UNCHANGED <<rwy_rows, last_track, leg_num>>
    /\ UNCHANGED <<ingestVars, kinVars, segVars, scoreVars, batchVars, legVars, lifeVars>>

RwyNext == RwyAddRow \/ RwySelect

SpecRwy == RwyInit /\ [][RwyNext]_vars

\* ---------------------------------------------------- runway selector claims
Selected == best_rwy[1]
AllEnds == Ends(rwy_rows)
ValidEnds == {k \in 1..Len(AllEnds) : HasCoords(AllEnds[k].row, AllEnds[k].end)}
HdgOf(k) == EndHdg(AllEnds[k].row, AllEnds[k].end)
DiffOf(k) == AngDiff(HdgOf(k), last_track[1])

\* the first end, in iteration order, that no valid end beats
Nearest ==
    CHOOSE k \in ValidEnds :
        /\ \A j \in ValidEnds : DiffOf(k) <= DiffOf(j)
        /\ \A j \in ValidEnds : j < k => DiffOf(j) > DiffOf(k)

\* C11: with a final heading, the selected runway is the end with valid
\* coordinates whose heading is angularly nearest (a difference within 0..180
\* degrees) to the final heading, and of several nearest ends the first in
\* iteration order
C11_NearestEndFirstOnTies ==
    (best_rwy # <<>> /\ last_track # NoVal /\ ValidEnds # {}) =>
        /\ Selected = Val(RunwayOf(AllEnds[Nearest].row, AllEnds[Nearest].end))
        /\ DiffOf(Nearest) \in 0..180000

\* a selection among two different nearest ends, made after a farther end
C11_Witness ==
    /\ best_rwy # <<>> /\ last_track # NoVal
    /\ \E i, j, k \in ValidEnds :
        /\ i < j /\ j < k
        /\ DiffOf(i) > DiffOf(j) /\ DiffOf(j) = DiffOf(k)
        /\ EndId(AllEnds[j].row, AllEnds[j].end) # EndId(AllEnds[k].row, AllEnds[k].end)
        /\ Nearest = j
        /\ Selected[1].runway_id = EndId(AllEnds[j].row, AllEnds[j].end)

\* the valid ends whose computed heading is exactly the final heading
ExactEnds == {k \in ValidEnds : HdgOf(k) = last_track[1]}

\* C12 (as stated): whenever the final heading equals the computed heading of
\* a valid end, that end is the one returned and the reported heading equals
\* the computed heading
C12_ExactCandidateReturned ==
    (best_rwy # <<>> /\ last_track # NoVal) =>
        \A k \in ExactEnds :
            /\ Selected # NoVal
            /\ Selected[1].runway_id = EndId(AllEnds[k].row, AllEnds[k].end)
            /\ Selected[1].threshold = EndPos(AllEnds[k].row, AllEnds[k].end)
            /\ Selected[1].heading = Val(HdgOf(k))

\* C12 (amended): when the final heading equals the computed heading of some
\* valid end, the first such end in iteration order is returned, its angular
\* difference is zero, and the reported heading is the computed heading
\* rounded to two decimals
C12_FirstExactCandidateRounded ==
    (best_rwy # <<>> /\ last_track # NoVal /\ ExactEnds # {}) =>
        LET k == SetMin(ExactEnds) IN
        /\ Selected # NoVal
        /\ Selected[1].runway_id = EndId(AllEnds[k].row, AllEnds[k].end)
        /\ Selected[1].threshold = EndPos(AllEnds[k].row, AllEnds[k].end)
        /\ DiffOf(k) = 0
        /\ Selected[1].heading = Val(Round2(HdgOf(k)))

\* two different ends carry exactly the final heading, and rounding changes it
C12_Witness ==
    /\ best_rwy # <<>> /\ last_track # NoVal
    /\ \E i, j \in ExactEnds :
        /\ i < j
        /\ EndId(AllEnds[i].row, AllEnds[i].end) # EndId(AllEnds[j].row, AllEnds[j].end)
    /\ Round2(last_track[1]) # last_track[1]
    /\ Selected # NoVal

\* C13: no runway is returned exactly when the destination has no rows; with
\* rows but without a final heading or without any end with valid
\* coordinates the first candidate is returned; and a leg without a runway is
\* not scored but logged as a failed attempt with the reason "No runway data"
C13_BestEffortRunway ==
    best_rwy # <<>> =>
        /\ (Selected = NoVal) <=> (rwy_rows = <<>>)
        /\ (rwy_rows # <<>> /\ (last_track = NoVal \/ ValidEnds = {})) =>
               Selected = Val(FirstCandidate(rwy_rows))
        /\ (Selected = NoVal) =>
               /\ ~proceeded
               /\ \E a \in attempts :
                    /\ a.gufi = LogGufi(gufi, leg_num)
                    /\ a.success = FALSE
                    /\ a.failure_reason = <<"No runway data for", arrival>>
        /\ (Selected # NoVal) => (proceeded /\ attempts = {})

\* rows exist, a final heading exists, but no end has valid coordinates
C13_Witness ==
    /\ best_rwy # <<>>
    /\ Len(rwy_rows) = 2 /\ last_track # NoVal /\ ValidEnds = {}
    /\ Selected = Val(FirstCandidate(rwy_rows))
    /\ proceeded

\* ============================================================ scoring engine
\* Distances are in hundredths of a nautical mile, turn rates in hundredths of
\* a degree per second, everything else in the unit of the source.  A field a
\* point does not carry is NoVal.  The formatted texts of 'details' and
\* 'deductions' are kept as their kind and their amount.

DEFAULT_CONFIG ==
    [descent_max |-> 20, stabilized_max |-> 20, centerline_max |-> 20,
     turn_to_final_max |-> 15, speed_control_max |-> 15, threshold_max |-> 10,
     cfit_penalty |-> 20, stall_penalty |-> 20,
     gs_dangerous_below |-> -200, gs_warning_below |-> -100, gs_high_above |-> 150,
     climbing_threshold |-> 200,
     stabilized_speed_tol |-> 10, stabilized_gs_tol |-> 150, stabilized_cl_tol |-> 300,
     stabilized_critical_dist |-> 100, stabilized_late_dist |-> 200,
     stabilized_ideal_dist |-> 300,
     cl_max_severe |-> 500, cl_max_warning |-> 300,
     cl_avg_severe |-> 200, cl_avg_warning |-> 100, crosswind_allowance |-> 20,
     bank_angle_steep |-> 30, cl_crossing_threshold |-> 50,
     speed_base_tolerance |-> 5, speed_major_deviation |-> 15,
     speed_minor_deviation |-> 10, speed_out_of_tol_pct |-> 30,
     threshold_target |-> 50, threshold_dangerous_low |-> 20,
     threshold_low |-> 35, threshold_high |-> 100, threshold_slightly_high |-> 75,
     cfit_agl_threshold |-> 500, cfit_gs_below |-> -50,
     stall_agl_threshold |-> 50, stall_margin |-> 10]

\* a snapshot loaded from scoring_config whose maxima sum to 50
SmallConfig ==
    [DEFAULT_CONFIG EXCEPT !.descent_max = 10, !.stabilized_max = 10,
                           !.centerline_max = 10, !.turn_to_final_max = 5,
                           !.speed_control_max = 5, !.threshold_max = 10,
                           !.cfit_penalty = 30]

ConfigSet == {NoVal, Val(SmallConfig)}

\* wind from 180 at 10 kt gusting 20, across the runway
MetarSet == {NoVal, Val([wind_dir_degrees |-> 180, wind_speed_kt |-> 10, wind_gust_kt |-> 20])}

runway == [runway_id |-> "09L", heading |-> 90]

DistSet == {10, 400}
AglSet == {19, 20, 50, 600}
GsDevSet == {NoVal, Val(0), Val(-80), Val(-250)}
ScSpeedSet == {NoVal, Val(70), Val(50)}
CrossTrackSet == {0, 600}
VsSet == {NoVal, Val(300)}
TurnRateSet == {NoVal, Val(1000)}

\* config if config else dict(DEFAULT_CONFIG)
Cfg(cf) == IF cf = NoVal THEN DEFAULT_CONFIG ELSE cf[1]

Count(sq, Test(_)) == Cardinality({k \in 1..Len(sq) : Test(sq[k])})

\* sorted(approach_points, key=lambda p: -p.get('distNm', 0)): stable insertion
RECURSIVE InsertFar(_, _)
InsertFar(sorted, p) ==
    IF sorted = <<>> THEN <<p>>
    ELSE IF sorted[Len(sorted)].distNm >= p.distNm THEN Append(sorted, p)
    ELSE Append(InsertFar(SubSeq(sorted, 1, Len(sorted) - 1), p), sorted[Len(sorted)])

RECURSIVE SortFar(_)
SortFar_asgiven(pts) == pts
SortFar(pts) ==
    IF pts = <<>> THEN <<>>
    ELSE InsertFar(SortFar(SubSeq(pts, 1, Len(pts) - 1)), pts[Len(pts)])

\* result['score'] = max(0, result['score'])
Floor0_none(x) == x
Floor0(x) == Max(0, x)

\* one deduction: <<amount>> when its condition holds, else <<>>
Deduct(cond, amount) == IF cond THEN <<amount>> ELSE <<>>

\* the category result once the deductions are known
Category(max_pts, deductions, details, metrics) ==
    [score |-> Floor0(max_pts - SumSeq(deductions)), max |-> max_pts,
     deductions |-> deductions, details |-> details, metrics |-> metrics]

\* the early return of an evaluator: the result as initialised, one detail added
Untouched(max_pts, detail) ==
    [score |-> max_pts, max |-> max_pts, deductions |-> <<>>,
     details |-> <<detail>>, metrics |-> <<>>]

score_descent(sorted_pts, c) ==
    LET gs_devs == SelectSeq(sorted_pts, LAMBDA p : p.gsDevFt # NoVal)
        below_gs == Count(gs_devs, LAMBDA p : p.gsDevFt[1] < c.gs_warning_below)
        way_below == Count(gs_devs, LAMBDA p : p.gsDevFt[1] < c.gs_dangerous_below)
        above_gs == Count(gs_devs, LAMBDA p : p.gsDevFt[1] > c.gs_high_above)
        climbing == Count(sorted_pts,
                          LAMBDA p : p.vs # NoVal /\ p.vs[1] # 0
                                     /\ p.vs[1] > c.climbing_threshold)
    IN  IF gs_devs = <<>> THEN Untouched(c.descent_max, "No glideslope data")
        ELSE Category(c.descent_max,
                 Deduct(way_below > 0, Min(10, way_below * 2))
                 \o Deduct(below_gs > way_below, Min(5, below_gs - way_below))
                 \o Deduct(above_gs > 3, Min(3, (above_gs - 3) \div 2))
                 \o Deduct(climbing > 0, Min(5, climbing)),
                 <<"Avg GS dev">>, <<>>)

\* the three conditions of score_stabilized on one point
OnSpeed(p, target_speed, c) ==
    p.speed # NoVal /\ p.speed[1] # 0
    /\ Abs(p.speed[1] - target_speed) <= c.stabilized_speed_tol
OnGs(p, c) == p.gsDevFt # NoVal /\ Abs(p.gsDevFt[1]) < c.stabilized_gs_tol
OnCl(p, c) == Abs(p.crossTrackFt) < c.stabilized_cl_tol

\* the scan of score_stabilized from point k on: the distance of the first
\* stabilized point, 0 when there is none
RECURSIVE StabilizedDist(_, _, _, _)
StabilizedDist(sorted_pts, k, target_speed, c) ==
    IF k > Len(sorted_pts) THEN 0
    ELSE IF OnSpeed(sorted_pts[k], target_speed, c) /\ OnGs(sorted_pts[k], c)
            /\ OnCl(sorted_pts[k], c)
         THEN sorted_pts[k].distNm
         ELSE StabilizedDist(sorted_pts, k + 1, target_speed, c)

score_stabilized(sorted_pts, target_speed, c) ==
    LET stabilized_dist == StabilizedDist(sorted_pts, 1, target_speed, c)
    IN  Category(c.stabilized_max,
            IF stabilized_dist < c.stabilized_critical_dist THEN <<15>>
            ELSE IF stabilized_dist < c.stabilized_late_dist THEN <<10>>
            ELSE IF stabilized_dist < c.stabilized_ideal_dist THEN <<5>>
            ELSE <<>>,
            <<"Stabilized at">>, <<stabilized_dist>>)

score_centerline(sorted_pts, crosswind, c) ==
    LET xw_margin == crosswind * c.crosswind_allowance
        n == Len(sorted_pts)
        total_cross == SumSeq([k \in 1..n |-> Abs(sorted_pts[k].crossTrackFt)])
        max_cross == SetMax({Abs(sorted_pts[k].crossTrackFt) : k \in 1..n})
        adj_max == Max(0, max_cross - xw_margin)
    IN  IF n = 0 THEN Untouched(c.centerline_max, "No crosstrack data")
        ELSE Category(c.centerline_max,
                 (IF adj_max > c.cl_max_severe THEN <<10>>
                  ELSE IF adj_max > c.cl_max_warning THEN <<5>> ELSE <<>>)
                 \o (IF total_cross > c.cl_avg_severe * n THEN <<5>>
                     ELSE IF total_cross > c.cl_avg_warning * n THEN <<2>> ELSE <<>>),
                 <<"Avg, Max, XW adj">>, <<total_cross \div n, max_cross>>)

\* calc_bank_angle(...) > bank_angle_steep, for the 30 degrees every config of
\* ConfigSet has: the arctangent of speed * 1.687 * turn_rate * pi / 180 / 32.2
\* exceeds 30 degrees from 631.4 kt * deg/s on
IsSteep(p) ==
    /\ p.turn_rate # NoVal /\ p.turn_rate[1] # 0
    /\ p.speed # NoVal /\ p.speed[1] # 0
    /\ p.speed[1] * Abs(p.turn_rate[1]) >= 63140

\* side of the centerline beyond the deadband
Side(p, c) ==
    IF p.crossTrackFt > c.cl_crossing_threshold THEN "R"
    ELSE IF p.crossTrackFt < -c.cl_crossing_threshold THEN "L" ELSE None

\* the crossing count of score_turn_to_final from point k on
RECURSIVE Crossings(_, _, _, _)
Crossings(sorted_pts, k, prev_side, c) ==
    IF k > Len(sorted_pts) THEN 0
    ELSE LET side == Side(sorted_pts[k], c)
         IN  (IF side # None /\ prev_side # None /\ side # prev_side THEN 1 ELSE 0)
             + Crossings(sorted_pts, k + 1, IF side # None THEN side ELSE prev_side, c)

score_turn_to_final(sorted_pts, c) ==
    LET steep_banks == Count(sorted_pts, IsSteep)
        crossings == Crossings(sorted_pts, 1, None, c)
    IN  Category(c.turn_to_final_max,
            Deduct(steep_banks > 0, Min(10, steep_banks * 2))
            \o Deduct(crossings > 1, Min(5, (crossings - 1) * 2)),
            <<"Max bank, CL crossings">>, <<crossings>>)

score_speed_control(sorted_pts, target_speed, gust, c) ==
    LET speeds == SelectSeq(sorted_pts, LAMBDA p : p.speed # NoVal)
        n == Len(speeds)
        \* speed_tol = speed_base_tolerance + gust / 2, kept doubled
        speed_tol2 == 2 * c.speed_base_tolerance + (IF gust > 0 THEN gust ELSE 0)
        max_speed_dev == SetMax({Abs(speeds[k].speed[1] - target_speed) : k \in 1..n})
        out_of_tol == Count(speeds,
                            LAMBDA p : 2 * Abs(p.speed[1] - target_speed) > speed_tol2)
    IN  IF n = 0 THEN Untouched(c.speed_control_max, "No speed data")
        ELSE Category(c.speed_control_max,
                 (IF max_speed_dev > c.speed_major_deviation THEN <<8>>
                  ELSE IF max_speed_dev > c.speed_minor_deviation THEN <<4>> ELSE <<>>)
                 \o Deduct(100 * out_of_tol > n * c.speed_out_of_tol_pct, 4),
                 <<"Target, Avg">>,
                 <<SumSeq([k \in 1..n |-> speeds[k].speed[1]]) \div n, max_speed_dev>>)

DangerousLow_inclusive(threshold_agl, c) == threshold_agl <= c.threshold_dangerous_low
DangerousLow(threshold_agl, c) == threshold_agl < c.threshold_dangerous_low

score_threshold_crossing(sorted_pts, c) ==
    LET near_threshold == SelectSeq(sorted_pts, LAMBDA p : p.distNm < 15)
        threshold_agl == near_threshold[Len(near_threshold)].agl
    IN  IF near_threshold # <<>>
        THEN Category(c.threshold_max,
                 IF DangerousLow(threshold_agl, c) THEN <<8>>
                 ELSE IF threshold_agl < c.threshold_low THEN <<4>>
                 ELSE IF threshold_agl > c.threshold_high THEN <<5>>
                 ELSE IF threshold_agl > c.threshold_slightly_high THEN <<2>>
                 ELSE <<>>,
                 <<"Crossed at">>, <<threshold_agl>>)
        ELSE [score |-> Floor0(0), max |-> c.threshold_max,
              deductions |-> <<c.threshold_max>>,
              details |-> <<"No data near threshold">>, metrics |-> <<None>>]

\* p.get('gsDevFt', 0)
GsDevOr0(p) == IF p.gsDevFt = NoVal THEN 0 ELSE p.gsDevFt[1]

BelowGsLow(p, c) == p.agl < c.cfit_agl_threshold /\ GsDevOr0(p) < c.cfit_gs_below

NearStall(p, dirty_stall, c) ==
    /\ p.agl > c.stall_agl_threshold
    /\ p.speed # NoVal /\ p.speed[1] # 0
    /\ p.speed[1] < dirty_stall + c.stall_margin

\* the entries check_severe_penalties appends for the points of one kind
Entries_perPoint(kind, found, penalty) ==
    [k \in 1..Len(found) |-> [type |-> kind, penalty |-> penalty]]
Entries(kind, found, penalty) ==
    IF found # <<>> THEN <<[type |-> kind, penalty |-> penalty]>> ELSE <<>>

check_severe_penalties(sorted_pts, dirty_stall, c) ==
    Entries("CFIT_RISK", SelectSeq(sorted_pts, LAMBDA p : BelowGsLow(p, c)), c.cfit_penalty)
    \o Entries("STALL_RISK", SelectSeq(sorted_pts, LAMBDA p : NearStall(p, dirty_stall, c)),
               c.stall_penalty)

\* abs(sin(radians(wind_angle)) * wind_speed) for the wind angles of MetarSet
calc_crosswind(wind_dir, wind_speed, runway_hdg) ==
    IF wind_dir = NoVal THEN 0
    ELSE LET a == Abs(wind_dir[1] - runway_hdg)
             wind_angle == IF a > 180 THEN 360 - a ELSE a
         IN  IF wind_angle = 90 THEN wind_speed ELSE 0

\* datetime.utcnow().isoformat() when the clock reads t
utcnow_frozen(t) == 0
utcnow(t) == t

Grade(total) ==
    IF total >= 90 THEN "A" ELSE IF total >= 80 THEN "B"
    ELSE IF total >= 70 THEN "C" ELSE IF total >= 60 THEN "D" ELSE "F"

\* the result is NoVal for None, Val(record) for a score; t is what utcnow() reads
calculate_approach_score(pts, rwy, mt, cf, t) ==
    IF pts = <<>> THEN NoVal
    ELSE
    LET c == Cfg(cf)
        wind_dir == IF mt = NoVal THEN NoVal ELSE Val(mt[1].wind_dir_degrees)
        wind_spd == IF mt = NoVal THEN 0 ELSE mt[1].wind_speed_kt
        wind_gust == IF mt = NoVal THEN 0 ELSE mt[1].wind_gust_kt
        target_speed == 70
        dirty_stall == 45
        crosswind == calc_crosswind(wind_dir, wind_spd, rwy.heading)
        sorted_pts == SortFar(pts)
        scores == [descent |-> score_descent(sorted_pts, c),
                   stabilized |-> score_stabilized(sorted_pts, target_speed, c),
                   centerline |-> score_centerline(sorted_pts, crosswind, c),
                   turnToFinal |-> score_turn_to_final(sorted_pts, c),
                   speedControl |-> score_speed_control(sorted_pts, target_speed, wind_gust, c),
                   thresholdCrossing |-> score_threshold_crossing(sorted_pts, c)]
        severe_penalties == check_severe_penalties(sorted_pts, dirty_stall, c)
        sum == scores.descent.score + scores.stabilized.score + scores.centerline.score
               + scores.turnToFinal.score + scores.speedControl.score
               + scores.thresholdCrossing.score
        max_total == scores.descent.max + scores.stabilized.max + scores.centerline.max
                     + scores.turnToFinal.max + scores.speedControl.max
                     + scores.thresholdCrossing.max
        severe_total == SumSeq([k \in 1..Len(severe_penalties) |-> severe_penalties[k].penalty])
        total == Max(0, sum - severe_total)
    IN  Val([scores |-> scores,
             severePenalties |-> severe_penalties,
             total |-> total,
             maxTotal |-> max_total,
             percentage |-> RoundHalfEven(total * 100, max_total),
             grade |-> Grade(total),
             metrics |-> [stabilizedDist |-> scores.stabilized.metrics,
                          crosstrack |-> scores.centerline.metrics,
                          clCrossings |-> scores.turnToFinal.metrics,
                          speed |-> scores.speedControl.metrics,
                          thresholdAgl |-> scores.thresholdCrossing.metrics],
             wind |-> [dir |-> wind_dir, speed |-> wind_spd, gust |-> wind_gust,
                       crosswind |-> crosswind],
             aircraftData |-> [targetSpeed |-> target_speed, dirtyStall |-> dirty_stall],
             scoredAt |-> utcnow(t)])

ScoreInit ==
    /\ approach_points = <<>>
    /\ config \in ConfigSet
    /\ metar \in MetarSet
    /\ clock = 0 /\ score = <<>> /\ score2 = <<>>
    /\ KinIdle /\ SegIdle /\ RwyIdle
    /\ prog = "parser"
    /\ buf = <<>> /\ fed = 0 /\ feedIn = "out"
    /\ db = {} /\ total_rows_uploaded = 0 /\ parsedEver = {}
    /\ IngestIdle
    /\ BatchIdle /\ LegIdle /\ LifeIdle

\* the projection hands over one more approach point of the leg; glideslope
\* deviation, speed, cross-track, vertical speed and turn rate are those of
\* the first point
ScoreAddPoint ==
    /\ score = <<>>
    /\ Len(approach_points) < MaxApproach
    /\ \E d \in DistSet, a \in AglSet :
         IF approach_points = <<>>
         THEN \E g \in GsDevSet, sp \in ScSpeedSet, x \in CrossTrackSet,
                 v \in VsSet, tr \in TurnRateSet :
                approach_points' = <<[distNm |-> d, agl |-> a, gsDevFt |-> g, speed |-> sp,
                                      crossTrackFt |-> x, vs |-> v, turn_rate |-> tr]>>
         ELSE approach_points' =
                Append(approach_points, [approach_points[1] EXCEPT !.distNm = d, !.agl = a])
    /\ UNCHANGED <<config, metar, clock, score, score2>>
    /\ UNCHANGED <<ingestVars, kinVars, segVars, rwyVars, batchVars, legVars, lifeVars>>

\* the first invocation of calculate_approach_score; time passes while it runs
ScoreCalc ==
    /\ score = <<>>
    /\ score' = <<calculate_approach_score(approach_points, runway, metar, config, clock)>>
    /\ clock' = clock + 1
    /\ UNCHANGED <<approach_points, config, metar, score2>>
    /\ UNCHANGED <<ingestVars, kinVars, segVars, rwyVars, batchVars, legVars, lifeVars>>

\* a second invocation with the same arguments, later
ScoreAgain ==
    /\ score # <<>> /\ score2 = <<>>
    /\ score2' = <<calculate_approach_score(approach_points, runway, metar, config, clock)>>
    /\ clock' = clock + 1
    /\ UNCHANGED <<approach_points, config, metar, score>>
    /\ UNCHANGED <<ingestVars, kinVars, segVars, rwyVars, batchVars, legVars, lifeVars>>

ScoreNext == ScoreAddPoint \/ ScoreCalc \/ ScoreAgain

SpecScore == ScoreInit /\ [][ScoreNext]_vars

\* ------------------------------------------------------ scoring engine claims
Scored == score # <<>> /\ score[1] # NoVal
Res == score[1][1]
UsedCfg == Cfg(config)
Categories ==
    {"descent", "stabilized", "centerline", "turnToFinal", "speedControl",
     "thresholdCrossing"}

\* the maximum the config gives the category
ConfiguredMax(cat) ==
    CASE cat = "descent" -> UsedCfg.descent_max
      [] cat = "stabilized" -> UsedCfg.stabilized_max
      [] cat = "centerline" -> UsedCfg.centerline_max
      [] cat = "turnToFinal" -> UsedCfg.turn_to_final_max
      [] cat = "speedControl" -> UsedCfg.speed_control_max
      [] cat = "thresholdCrossing" -> UsedCfg.threshold_max

\* C14: every category result has 0 <= score <= max, max being the configured
\* maximum of the category
C14_CategoryScoreWithinBounds ==
    Scored =>
        \A cat \in Categories :
            /\ Res.scores[cat].max = ConfiguredMax(cat)
            /\ 0 <= Res.scores[cat].score
            /\ Res.scores[cat].score <= Res.scores[cat].max

\* a category whose deductions exceed its maximum
C14_Witness ==
    /\ Scored
    /\ \E cat \in Categories :
        /\ SumSeq(Res.scores[cat].deductions) > Res.scores[cat].max
        /\ Res.scores[cat].max > 0
        /\ Res.scores[cat].score = 0

PenaltiesOf(kind) ==
    {k \in 1..Len(Res.severePenalties) : Res.severePenalties[k].type = kind}

\* the points that are low and below the glideslope
CfitPoints ==
    {k \in 1..Len(approach_points) :
        /\ approach_points[k].agl < UsedCfg.cfit_agl_threshold
        /\ approach_points[k].gsDevFt # NoVal
        /\ approach_points[k].gsDevFt[1] < UsedCfg.cfit_gs_below}

\* C15: at most one CFIT_RISK and at most one STALL_RISK entry per run; a
\* CFIT_RISK entry, carrying the configured cfit_penalty, is there exactly
\* when some point is below the CFIT AGL threshold with a glideslope
\* deviation below the CFIT deviation threshold, however many such points
C15_SeverePenaltyOncePerRun ==
    Scored =>
        /\ Cardinality(PenaltiesOf("CFIT_RISK")) <= 1
        /\ Cardinality(PenaltiesOf("STALL_RISK")) <= 1
        /\ (PenaltiesOf("CFIT_RISK") # {}) <=> (CfitPoints # {})
        /\ \A k \in PenaltiesOf("CFIT_RISK") :
               Res.severePenalties[k].penalty = UsedCfg.cfit_penalty

\* two points at 50 ft AGL and 80 ft below the glideslope, one entry
C15_Witness ==
    /\ Scored
    /\ Cardinality(CfitPoints) = 2
    /\ \A k \in CfitPoints :
           approach_points[k].agl = 50 /\ approach_points[k].gsDevFt = Val(-80)
    /\ Cardinality(PenaltiesOf("CFIT_RISK")) = 1
    /\ config # NoVal

\* the grade the percentage of total against maxTotal gives
GradeOfPercentage(total, max_total) ==
    IF total * 100 >= 90 * max_total THEN "A"
    ELSE IF total * 100 >= 80 * max_total THEN "B"
    ELSE IF total * 100 >= 70 * max_total THEN "C"
    ELSE IF total * 100 >= 60 * max_total THEN "D" ELSE "F"

\* C16: the grade follows the post-penalty total as a percentage of maxTotal
\* (>=90 A, >=80 B, >=70 C, >=60 D, else F), whatever the maxima sum to
C16_GradeFromPercentage ==
    Scored => Res.grade = GradeOfPercentage(Res.total, Res.maxTotal)

\* the points within 0.15 nm, and among them the one the scan ends on: the
\* nearest, and of equally near ones the last handed over
NearPoints == {k \in 1..Len(approach_points) : approach_points[k].distNm < 15}
ThresholdPoint ==
    CHOOSE k \in NearPoints :
        \A j \in NearPoints :
            \/ approach_points[j].distNm > approach_points[k].distNm
            \/ (approach_points[j].distNm = approach_points[k].distNm /\ j <= k)
ThresholdAgl == approach_points[ThresholdPoint].agl

\* C17 (as stated): with the default config a threshold AGL of exactly 20 ft
\* is charged the dangerous-low deduction of 8
C17_TwentyFeetIsDangerousLow ==
    (Scored /\ config = NoVal /\ NearPoints # {} /\ ThresholdAgl = 20) =>
        Res.scores.thresholdCrossing.deductions = <<8>>

\* C17 (amended): with the default config a threshold AGL of exactly 20 ft is
\* charged the low-crossing deduction of 4 and scores 6; the dangerous-low
\* deduction of 8 is charged below 20 ft only
C17_TwentyFeetIsLowCrossing ==
    (Scored /\ config = NoVal /\ NearPoints # {}) =>
        /\ ThresholdAgl = 20 =>
               /\ Res.scores.thresholdCrossing.deductions = <<4>>
               /\ Res.scores.thresholdCrossing.score = 6
        /\ (Res.scores.thresholdCrossing.deductions = <<8>>) <=> (ThresholdAgl < 20)

C17_Witness ==
    /\ Scored /\ config = NoVal /\ NearPoints # {}
    /\ ThresholdAgl = 20
    /\ Res.scores.thresholdCrossing.score = 6

\* constant 70 kt, on the centerline, on the glideslope, 50 ft over the
\* threshold, no wind, default config
PerfectLeg ==
    /\ approach_points # <<>>
    /\ \A k \in 1..Len(approach_points) :
        /\ approach_points[k].speed = Val(70)
        /\ approach_points[k].crossTrackFt = 0
        /\ approach_points[k].gsDevFt = Val(0)
    /\ NearPoints # {} /\ ThresholdAgl = 50
    /\ metar = NoVal /\ config = NoVal

AllAtMaximum ==
    /\ Res.percentage = 100 /\ Res.grade = "A"
    /\ \A cat \in Categories : Res.scores[cat].score = Res.scores[cat].max
    /\ Res.severePenalties = <<>>

\* C18 (as stated): every perfect leg scores 100 percent, grade A, every
\* category at its maximum, no severe penalty
C18_PerfectLegAnyLength ==
    (Scored /\ PerfectLeg) => AllAtMaximum

\* C18 (amended): a perfect leg scores so when, in addition, its farthest
\* point is at least 3.0 nm out, no point climbs faster than 200 ft/min and
\* no point banks more than 30 degrees
C18_PerfectLongSteadyLeg ==
    (/\ Scored /\ PerfectLeg
     /\ \E k \in 1..Len(approach_points) : approach_points[k].distNm >= 300
     /\ \A k \in 1..Len(approach_points) :
            /\ approach_points[k].vs = NoVal \/ approach_points[k].vs[1] <= 200
            /\ ~IsSteep(approach_points[k]))
        => AllAtMaximum

\* the threshold point was handed over before the far point
C18_Witness ==
    /\ Scored /\ PerfectLeg
    /\ Len(approach_points) = 2
    /\ approach_points[1].distNm = 10 /\ approach_points[2].distNm = 400
    /\ approach_points[1].vs = NoVal /\ approach_points[1].turn_rate = NoVal
    /\ AllAtMaximum

NoGlideslopeSamples ==
    \A k \in 1..Len(approach_points) : approach_points[k].gsDevFt = NoVal
NoSpeedSamples ==
    \A k \in 1..Len(approach_points) : approach_points[k].speed = NoVal

\* the evaluator returned its maximum, deducted nothing and said "no data"
MaxUnchanged(r, note) ==
    r.score = r.max /\ r.deductions = <<>> /\ note \in Range(r.details)

\* C20: without glideslope samples descent keeps its maximum, without speed
\* samples speedControl and stabilized keep theirs, each undeducted;
\* thresholdCrossing alone drops to 0, when no point is within 0.15 nm
C20_MissingDataCostsNothing ==
    Scored =>
        /\ NoGlideslopeSamples => MaxUnchanged(Res.scores.descent, "No glideslope data")
        /\ NoSpeedSamples =>
               /\ MaxUnchanged(Res.scores.speedControl, "No speed data")
               /\ Res.scores.stabilized.score = Res.scores.stabilized.max
               /\ Res.scores.stabilized.deductions = <<>>
        /\ NearPoints = {} => Res.scores.thresholdCrossing.score = 0

\* --------------------------------------------------------- batch scoring
\* score_flight as a whole, run again and again on one flight whose stored
\* track may have grown between the runs.  What the data lets the run do with
\* a leg is the leg's fate:
\*   "short"           len(leg_track) < 5
\*   "short_approach"  fewer than 5 points left by truncate_to_approach
\*   "no_approach"     calculate_approach_geometry keeps no point
\*   "ok"              the leg is scored
MaxRuns == 2            \* invocations of score_flight on the flight
MaxLegs == 2            \* legs preprocess_flight returns for the flight

LegFates == {"short", "short_approach", "no_approach", "ok"}

LegLists == UNION {[1..n -> LegFates] : n \in 1..MaxLegs}

\* what storage can hold of the flight when score_flight reads it; a single
\* leg is the whole track of a flight that passed the ghost rules, so it has
\* at least 5 points
FlightSet ==
    {f \in [found : BOOLEAN, arr_airport : BOOLEAN, is_ghost : BOOLEAN,
            runways : BOOLEAN, legs : LegLists] :
        /\ (Len(f.legs) = 1 => f.legs[1] # "short")
        /\ (~f.found => (~f.arr_airport /\ ~f.is_ghost /\ ~f.runways /\ Len(f.legs) = 1
                           /\ f.legs[1] = "ok"))
        /\ ((f.found /\ ~f.arr_airport) => (~f.is_ghost /\ ~f.runways /\ Len(f.legs) = 1
                           /\ f.legs[1] = "ok"))
        /\ (f.is_ghost => (~f.runways /\ Len(f.legs) = 1 /\ f.legs[1] = "ok"))}

\* score_flight: score_gufi = f"{gufi}#leg{leg_num}" if len(legs) > 1 else gufi
ScoreGufi(g, n, nlegs) == IF nlegs > 1 THEN <<g, "#leg", n>> ELSE <<g>>

\* score_flight: DELETE FROM approach_scores WHERE gufi = score_gufi, then INSERT.
\* leg and run are not columns: they record which leg of which run wrote the row
save_score(tbl, g, n, nlegs, r) ==
    {a \in tbl : a.gufi # ScoreGufi(g, n, nlegs)}
        \cup {[gufi |-> ScoreGufi(g, n, nlegs), leg |-> n, run |-> r]}

\* score_flight: the loop over enumerate(legs, 1), from leg k on
RECURSIVE ScoreLegs(_, _, _, _, _)
ScoreLegs(f, k, r, scores, log) ==
    IF k > Len(f.legs) THEN [approach_scores |-> scores, attempts |-> log]
    ELSE IF f.legs[k] = "short" THEN ScoreLegs(f, k + 1, r, scores, log)
    ELSE IF ~f.runways
    THEN ScoreLegs(f, k + 1, r, scores,
                   log_attempt(log, gufi, k, FALSE, <<"No runway data for", arrival>>))
    ELSE IF f.legs[k] = "short_approach" THEN ScoreLegs(f, k + 1, r, scores, log)
    ELSE IF f.legs[k] = "no_approach"
    THEN ScoreLegs(f, k + 1, r, scores,
                   log_attempt(log, gufi, k, FALSE, <<"No approach points (heading filter)">>))
    ELSE ScoreLegs(f, k + 1, r, save_score(scores, gufi, k, Len(f.legs), r),
                   log_attempt(log, gufi, IF Len(f.legs) > 1 THEN k ELSE 0, TRUE, <<>>))

\* score_flight(cursor, gufi): the two tables after the call, run number r
score_flight(f, r, scores, log) ==
    IF ~f.found THEN [approach_scores |-> scores, attempts |-> log]
    ELSE IF ~f.arr_airport
    THEN [approach_scores |-> scores,
          attempts |-> log_attempt(log, gufi, 0, FALSE, <<"No arrival airport">>)]
    ELSE IF f.is_ghost
    THEN [approach_scores |-> scores,
          attempts |-> log_attempt(log, gufi, 0, FALSE, <<"Ghost">>)]
    ELSE ScoreLegs(f, 1, r, scores, log)

\* main: NOT EXISTS (SELECT 1 FROM scoring_attempts s WHERE s.gufi = f.gufi)
NeverAttempted(log) == ~\E a \in log : a.gufi = <<gufi>>

BatchInit ==
    /\ approach_scores = {} /\ run = 0 /\ flight = <<>>
    /\ KinIdle /\ SegIdle /\ RwyIdle /\ ScoreIdle /\ LegIdle /\ LifeIdle
    /\ prog = "parser"
    /\ buf = <<>> /\ fed = 0 /\ feedIn = "out"
    /\ db = {} /\ total_rows_uploaded = 0 /\ parsedEver = {}
    /\ IngestIdle

\* the body of the loop of main over the selected flights
BatchScore(f) ==
    /\ run < MaxRuns
    /\ flight' = <<f>>
    /\ run' = run + 1
    /\ approach_scores' = score_flight(f, run + 1, approach_scores, attempts).approach_scores
    /\ attempts' = score_flight(f, run + 1, approach_scores, attempts).attempts
    /\ UNCHANGED <<rwy_rows, last_track, leg_num, best_rwy, proceeded>>
    /\ UNCHANGED <<ingestVars, kinVars, segVars, scoreVars, legVars, lifeVars>>

\* main without --rescore: the flight is selected while it has no attempt row
MainScore ==
    /\ NeverAttempted(attempts)
    /\ \E f \in FlightSet : f.found /\ f.arr_airport /\ BatchScore(f)

\* main --rescore, or score_flight called for a gufi by hand
MainRescore ==
    \E f \in FlightSet : BatchScore(f)

BatchNext == MainScore \/ MainRescore

SpecBatch == BatchInit /\ [][BatchNext]_vars

\* the flight as the latest run read it
Latest == flight[1]

\* C21: after any sequence of runs over the flight, storage holds at most one
\* ApproachScore per leg of the flight, and no ApproachScore an earlier run
\* wrote is left next to the rows of the latest run
C21_OneScorePerLegOfLatestRun ==
    /\ \A a, b \in approach_scores : a.leg = b.leg => a = b
    /\ (\E a \in approach_scores : a.run = run) =>
           \A a \in approach_scores : a.run = run

\* C22: when score_flight has returned for a flight that exists, the attempt
\* log has a row for the flight, so that main does not select it again as
\* never attempted, and a row for every leg of the run, scored or failed (too
\* few points, no runway, no approach points)
C22_EveryAttemptLogged ==
    (run > 0 /\ Latest.found) =>
        /\ ~NeverAttempted(attempts)
        /\ (Latest.arr_airport /\ ~Latest.is_ghost) =>
               \A k \in 1..Len(Latest.legs) :
                   \E a \in attempts : a.gufi \in {<<gufi>>, LogGufi(gufi, k)}

\* ------------------------------------------------- the shared state file
\* collector.py and parser.py (stdds_parser.py has the same main loop) keep
\* their flags in one JSON file that the controller writes too.  Every
\* update is get_state(), a change of the local dict, save_state(dict).
\* save_state is taken as one step here: the file is never seen half written.
\* The lines the collector writes are the CollectorAppend step of the
\* ingestion; here only the control flow of its loop is kept.
MaxUploads == 2         \* cycles that report uploaded > 0

\* collector.py main: the file it creates when there is none
InitialState ==
    [collector_enabled |-> TRUE, collector_running |-> FALSE,
     parser_running |-> FALSE, total_rows_uploaded |-> 0]

LifeInit ==
    /\ state_file = InitialState /\ requested = TRUE
    /\ c_pc = "top" /\ c_state = InitialState
    /\ p_pc = "top" /\ p_state = InitialState
    /\ KinIdle /\ SegIdle /\ RwyIdle /\ ScoreIdle /\ BatchIdle /\ LegIdle
    /\ prog = "parser"
    /\ buf = <<>> /\ fed = 0 /\ feedIn = "out"
    /\ db = {} /\ total_rows_uploaded = 0 /\ parsedEver = {}
    /\ IngestIdle

LifeOthers == UNCHANGED <<ingestVars, kinVars, segVars, rwyVars, scoreVars, batchVars, legVars>>

\* the controller switches collector_enabled
ControllerSet ==
    /\ requested' = ~requested
    /\ state_file' = [state_file EXCEPT !.collector_enabled = ~requested]
    /\ UNCHANGED <<c_pc, c_state, p_pc, p_state>>
    /\ LifeOthers

\* collector.py main, top of the loop: state = get_state()
CTop ==
    /\ c_pc = "top"
    /\ c_state' = state_file
    /\ c_pc' = "got"
    /\ UNCHANGED <<state_file, requested, p_pc, p_state>>
    /\ LifeOthers

\* collector.py main: disabled, collector_running = False, save, sleep, continue;
\* enabled, collector_running = True, save, start the feed process
CMark ==
    /\ c_pc = "got"
    /\ c_state' = [c_state EXCEPT !.collector_running = c_state.collector_enabled]
    /\ state_file' = c_state'
    /\ c_pc' = IF c_state.collector_enabled THEN "feed" ELSE "top"
    /\ UNCHANGED <<requested, p_pc, p_state>>
    /\ LifeOthers

\* collector.py main, one line of the feed: state = get_state(); on a stop
\* request terminate the feed process and break
CLine ==
    /\ c_pc = "feed"
    /\ c_state' = state_file
    /\ c_pc' = IF state_file.collector_enabled THEN "feed" ELSE "top"
    /\ UNCHANGED <<state_file, requested, p_pc, p_state>>
    /\ LifeOthers

\* collector.py main: the feed process ends, the for loop is over
CFeedEnd ==
    /\ c_pc = "feed"
    /\ c_pc' = "top"
    /\ UNCHANGED <<state_file, requested, c_state, p_pc, p_state>>
    /\ LifeOthers

\* collector.py main, except: state = get_state()
CError ==
    /\ c_pc = "feed"
    /\ c_state' = state_file
    /\ c_pc' = "failed"
    /\ UNCHANGED <<state_file, requested, p_pc, p_state>>
    /\ LifeOthers

\* collector.py main, except: collector_running = False, save, sleep
CErrorSave ==
    /\ c_pc = "failed"
    /\ c_state' = [c_state EXCEPT !.collector_running = FALSE]
    /\ state_file' = c_state'
    /\ c_pc' = "top"
    /\ UNCHANGED <<requested, p_pc, p_state>>
    /\ LifeOthers

\* parser.py main, top of the outer loop: state = get_state(); disabled: sleep, continue
PTop ==
    /\ p_pc = "top"
    /\ p_state' = state_file
    /\ p_pc' = IF state_file.collector_enabled THEN "connect" ELSE "top"
    /\ UNCHANGED <<state_file, requested, c_pc, c_state>>
    /\ LifeOthers

\* parser.py main: conn = connect_azure(), then state = get_state() on either branch
PConnect ==
    /\ p_pc = "connect"
    /\ p_state' = state_file
    /\ p_pc' \in {"mark", "noconn"}
    /\ UNCHANGED <<state_file, requested, c_pc, c_state>>
    /\ LifeOthers

\* parser.py main: no connection, parser_running = False, save, sleep, continue
PNoConn ==
    /\ p_pc = "noconn"
    /\ p_state' = [p_state EXCEPT !.parser_running = FALSE]
    /\ state_file' = p_state'
    /\ p_pc' = "top"
    /\ UNCHANGED <<requested, c_pc, c_state>>
    /\ LifeOthers

\* parser.py main: parser_running = True, save
PMark ==
    /\ p_pc = "mark"
    /\ p_state' = [p_state EXCEPT !.parser_running = TRUE]
    /\ state_file' = p_state'
    /\ p_pc' = "loop"
    /\ UNCHANGED <<requested, c_pc, c_state>>
    /\ LifeOthers

\* parser.py main, top of the inner loop: state = get_state(); disabled: break
PCheck ==
    /\ p_pc = "loop"
    /\ p_state' = state_file
    /\ p_pc' = IF state_file.collector_enabled THEN "cycle" ELSE "stopping"
    /\ UNCHANGED <<state_file, requested, c_pc, c_state>>
    /\ LifeOthers

\* parser.py main: uploaded = process_file(conn); 0: sleep; > 0: state = get_state()
PCycle ==
    /\ p_pc = "cycle"
    /\ \/ /\ p_pc' = "loop"
          /\ UNCHANGED p_state
       \/ /\ state_file.total_rows_uploaded < MaxUploads
          /\ p_state' = state_file
          /\ p_pc' = "count"
    /\ UNCHANGED <<state_file, requested, c_pc, c_state>>
    /\ LifeOthers

\* parser.py main: total_rows_uploaded += uploaded, save, sleep
PCount ==
    /\ p_pc = "count"
    /\ p_state' = [p_state EXCEPT !.total_rows_uploaded = @ + 1]
    /\ state_file' = p_state'
    /\ p_pc' = "loop"
    /\ UNCHANGED <<requested, c_pc, c_state>>
    /\ LifeOthers

\* parser.py main, except: state = get_state()
PError ==
    /\ p_pc = "cycle"
    /\ p_state' = state_file
    /\ p_pc' = "failed"
    /\ UNCHANGED <<state_file, requested, c_pc, c_state>>
    /\ LifeOthers

\* parser.py main, except: parser_running = False, save
PErrorSave ==
    /\ p_pc = "failed"
    /\ p_state' = [p_state EXCEPT !.parser_running = FALSE]
    /\ state_file' = p_state'
    /\ p_pc' = "stopping"
    /\ UNCHANGED <<requested, c_pc, c_state>>
    /\ LifeOthers

\* parser.py main, finally: conn.close(), sleep, back to the outer loop
PFinally ==
    /\ p_pc = "stopping"
    /\ p_pc' = "top"
    /\ UNCHANGED <<state_file, requested, c_pc, c_state, p_state>>
    /\ LifeOthers

\* the steps the collector takes as long as nothing fails
CollectorStep == CTop \/ CMark \/ CLine

\* the steps the parser takes as long as nothing fails
ParserStep == PTop \/ PConnect \/ PMark \/ PCheck \/ PCycle \/ PCount \/ PFinally

LifeNext ==
    \/ ControllerSet
    \/ CTop \/ CMark \/ CLine \/ CFeedEnd \/ CError \/ CErrorSave
    \/ PTop \/ PConnect \/ PNoConn \/ PMark \/ PCheck \/ PCycle \/ PCount
    \/ PError \/ PErrorSave \/ PFinally

SpecLife == LifeInit /\ [][LifeNext]_vars

\* both loops keep running: time.sleep returns and the feed keeps sending lines
SpecLifeFair ==
    /\ LifeInit /\ [][LifeNext]_vars
    /\ WF_vars(CollectorStep) /\ WF_vars(ParserStep) /\ WF_vars(CErrorSave)
    /\ WF_vars(PNoConn) /\ WF_vars(PErrorSave)

\* the loop has seen collector_enabled false and left its cycles
CollectorStopped == c_pc \in {"got", "top"} /\ ~c_state.collector_enabled
ParserStopped == p_pc \in {"stopping", "top"} /\ ~p_state.collector_enabled

\* C23: once a loop has observed collector_enabled false, its running flag is
\* eventually written back to false (unless the controller enables the loop again)
C23_RunningFlagCleared ==
    /\ CollectorStopped ~> (~state_file.collector_running \/ state_file.collector_enabled)
    /\ ParserStopped ~> (~state_file.parser_running \/ state_file.collector_enabled)

\* C29: no lost update on the state file: collector_enabled changes only when
\* the controller changes it, a step of the collector leaves the parser's flag
\* and the counter as they are, a step of the parser leaves the collector's
\* flag as it is, and the counter never goes back
C29_NoLostUpdate ==
    [][ /\ state_file'.collector_enabled # state_file.collector_enabled =>
               requested' # requested
        /\ c_pc' # c_pc =>
               /\ state_file'.parser_running = state_file.parser_running
               /\ state_file'.total_rows_uploaded = state_file.total_rows_uploaded
        /\ p_pc' # p_pc =>
               state_file'.collector_running = state_file.collector_running
        /\ state_file'.total_rows_uploaded >= state_file.total_rows_uploaded
      ]_vars

\* ------------------------------------------------ ghost rules, one by one
\* Short tracks whose altitudes reach each of the limits of the ghost rules
\* (3000 ft, 2000 ft, a range of 500 ft), 0 ft included.
MaxGhost == 6           \* points of the flight the ghost rules are applied to

GhostAltSet == {0, 100, 2500, 4000}      \* reported altitudes, feet

GhostInit ==
    /\ track = <<>> /\ pre = <<>>
    /\ step = NoVal
    /\ speed \in SegSpeedSet
    /\ KinIdle /\ RwyIdle /\ ScoreIdle
    /\ prog = "parser"
    /\ buf = <<>> /\ fed = 0 /\ feedIn = "out"
    /\ db = {} /\ total_rows_uploaded = 0 /\ parsedEver = {}
    /\ IngestIdle
    /\ BatchIdle /\ LegIdle /\ LifeIdle

\* one more point of the flight is stored
GhostAddPoint ==
    /\ Len(track) < MaxGhost
    /\ \E a \in GhostAltSet : track' = Append(track, a)
    /\ pre' = <<>>
    /\ UNCHANGED <<step, speed>>
    /\ UNCHANGED <<ingestVars, kinVars, rwyVars, scoreVars, batchVars, legVars, lifeVars>>

GhostNext == GhostAddPoint \/ SegPreprocess

SpecGhost == GhostInit /\ [][GhostNext]_vars

\* the rules as stated, on the altitudes and speeds the points report
Agl(i) == At(track, i) - airport_elevation
AllAgl == {Agl(i) : i \in 0..(N - 1)}
Rule1 == N < 5
Rule2 == SetMin(AllAgl) > 3000
Rule3 == SetMax(AllAgl) - SetMin(AllAgl) < 500
Rule4 == Agl(N - 1) > 2000
Rule5 == speed > 200

FirstRuleReason ==
    IF Rule1 THEN "Too few track points"
    ELSE IF Rule2 THEN "Never below 3000ft AGL"
    ELSE IF Rule3 THEN "No descent"
    ELSE IF Rule4 THEN "Last point too high"
    ELSE IF Rule5 THEN "Final speeds too high"
    ELSE None

\* C24: the ghost rules are evaluated in the order fewer than 5 points,
\* minimum AGL above 3000 ft, altitude range under 500 ft, last point's AGL
\* above 2000 ft, minimum speed of the final 5 points above 200 kt; the result
\* carries the reason of the first rule that matches, and a flight that
\* matches none is no ghost and has no reason
C24_FirstMatchingGhostRule ==
    (pre # <<>> /\ track # <<>>) =>
        /\ Result.is_ghost = (Rule1 \/ Rule2 \/ Rule3 \/ Rule4 \/ Rule5)
        /\ Result.ghost_reason = FirstRuleReason

\* ------------------------------------------------- the leg loop of score_flight
\* What score_flight derives for every leg before it selects the runway:
\* calculate_derivatives on the slice of the leg, then the backward scan for
\* last_track.  The points are 10 s apart; consecutive legs share their
\* boundary point, as the slices track[start_idx:end_idx + 1] do.
MaxLegTrack == 9        \* points of the flight that is cut into legs

MinLegPoints == 5       \* score_flight: if len(leg_track) < 5: continue

LegPointSet ==
    {[speed |-> Val(60), track |-> Val(0)],
     [speed |-> Val(70), track |-> Val(90)],
     [speed |-> Val(70), track |-> NoVal]}

\* the legs preprocess_flight can hand over: one leg, or two legs meeting at index c
LegCuts(n) == {<<(<<0, n - 1>>)>>} \cup {<<(<<0, c>>), (<<c, n - 1>>)>> : c \in 1..(n - 2)}

\* preprocess_flight: track[start_idx:end_idx + 1]
LegSlice(pts, b) == SubSeq(pts, b[1] + 1, b[2] + 1)

\* score_flight: for p in reversed(leg_track): if p.get('track'): last_track = ...; break
RECURSIVE LastTrack(_, _)
LastTrack(lt, k) ==
    IF k = 0 THEN NoVal
    ELSE IF lt[k].track # NoVal /\ lt[k].track # Val(0) THEN lt[k].track
    ELSE LastTrack(lt, k - 1)

\* score_flight, one leg up to the runway step; NoVal for a leg that is skipped
ProcessLeg(pts, b) ==
    LET leg_track == LegSlice(pts, b) IN
    IF Len(leg_track) < MinLegPoints THEN NoVal
    ELSE Val([derived |-> calculate_derivatives(leg_track),
              last_track |-> LastTrack(leg_track, Len(leg_track))])

LegInit ==
    /\ flight_track = <<>> /\ leg_bounds = <<>> /\ leg_results = <<>>
    /\ KinIdle /\ SegIdle /\ RwyIdle /\ ScoreIdle /\ BatchIdle /\ LifeIdle
    /\ prog = "parser"
    /\ buf = <<>> /\ fed = 0 /\ feedIn = "out"
    /\ db = {} /\ total_rows_uploaded = 0 /\ parsedEver = {}
    /\ IngestIdle

\* one more report of the flight is stored, 10 s after the one before
LegAddPoint ==
    /\ Len(flight_track) < MaxLegTrack
    /\ leg_results = <<>>
    /\ \E p \in LegPointSet :
          flight_track' = Append(flight_track,
                                 [t |-> 10 * Len(flight_track), speed |-> p.speed,
                                  track |-> p.track])
    /\ UNCHANGED <<leg_bounds, leg_results>>
    /\ UNCHANGED <<ingestVars, kinVars, segVars, rwyVars, scoreVars, batchVars, lifeVars>>

\* score_flight on a flight that passed the ghost rules: the loop over the legs
LegsProcess ==
    /\ Len(flight_track) >= 5
    /\ leg_results = <<>>
    /\ \E bs \in LegCuts(Len(flight_track)) :
          /\ leg_bounds' = bs
          /\ leg_results' = [k \in 1..Len(bs) |-> ProcessLeg(flight_track, bs[k])]
    /\ UNCHANGED flight_track
    /\ UNCHANGED <<ingestVars, kinVars, segVars, rwyVars, scoreVars, batchVars, lifeVars>>

LegNext == LegAddPoint \/ LegsProcess

SpecLegs == LegInit /\ [][LegNext]_vars

\* the legs of the run that got as far as the runway step
Processed == {k \in 1..Len(leg_results) : leg_results[k] # NoVal}

LegTrackOf(k) == LegSlice(flight_track, leg_bounds[k])

\* the points of leg k that report a heading
WithHeading(k) == {i \in 1..Len(LegTrackOf(k)) : LegTrackOf(k)[i].track # NoVal}

\* C25: the final track heading of a leg is the heading of its last point that
\* has one, whatever its value in [0, 360), 0 included; it is absent only when
\* no point of the leg has a heading
C25_LastNonNullHeading ==
    \A k \in Processed :
        leg_results[k][1].last_track =
            IF WithHeading(k) = {} THEN NoVal
            ELSE LegTrackOf(k)[SetMax(WithHeading(k))].track

Covers(lg, n) ==
    /\ lg # <<>>
    /\ \A k \in 1..Len(lg) :
          /\ 0 <= lg[k].start_idx /\ lg[k].start_idx <= lg[k].end_idx
          /\ lg[k].end_idx <= n - 1
    /\ lg[1].start_idx = 0
    /\ lg[Len(lg)].end_idx = n - 1
    /\ \A k \in 2..Len(lg) : lg[k].start_idx = lg[k - 1].end_idx

\* C27: for every track of n >= 1 points the legs of detect_touch_and_goes
\* are a non-empty list that covers the track without gaps, also when a span
\* without a 300 ft climb was merged into the leg before it
C27_LegsCoverTrack ==
    (pre # <<>> /\ track # <<>>) => Covers(detect_touch_and_goes(track, step), N)

\* preprocess_flight returned several legs, one of them grown by a span
\* between two valleys that had no climb
C27_Witness ==
    /\ pre # <<>> /\ ~Result.is_ghost
    /\ Len(Result.legs) >= 2
    /\ Len(Result.legs) < Len(merged_valleys(track, step)) + 1
    /\ Covers(Result.legs, N)

\* ------------------------------------------- appends during the rewrite
IsSuffix(a, b) == Len(a) <= Len(b) /\ SubSeq(b, Len(b) - Len(a) + 1, Len(b)) = a

\* C28: what the collector appended between the read of a cycle and its
\* truncating rewrite is still in the buffer file, after the remaining tail,
\* when the rewrite is done
C28_AppendedBytesKept ==
    [][TruncWrite => IsSuffix(appended, buf')]_vars

\* ------------------------------------------------ progress of the checkpoint
\* The ingestion with storage reachable and the loop enabled: no insert and
\* no commit raises, every reconnect succeeds, the parser is not killed, and
\* the main loop keeps calling process_file after every sleep.
UploadAllOk == UploadAll /\ outcome' = "ok"

UploadChunkOk == UploadChunk /\ outcome' = "ok" /\ ci' # ci

ParserCycle ==
    \/ ReadAndParse
    \/ UploadAllOk
    \/ UploadChunkOk
    \/ UploadNothing
    \/ ReturnUnchanged
    \/ TruncOpen
    \/ TruncWrite

ProgressNext == CollectorAppend \/ ParserCycle

SpecProgress == IngestInit /\ [][ProgressNext]_vars /\ WF_vars(ParserCycle)

\* the buffer file holds a complete block
HasCompleteBlock == FindAll(prog, buf, 1) # <<>>

\* C30: with storage reachable and the cycles scheduled fairly, a complete
\* block does not stay in the buffer file for ever: from every moment on at
\* which the file holds complete blocks it is eventually without one, also
\* when nothing more arrives and the blocks are all duplicates or unparsable
C30_BlocksEventuallyRemoved ==
    HasCompleteBlock ~> ~HasCompleteBlock

====
